---- MODULE Spec2Model ----
(***************************************************************************)
(* Model of the generation gateway of server.py: per-class admission by    *)
(* counting semaphores (handle_video_t2v, handle_video_i2v), unguarded     *)
(* image submission (handle_image_generation), and the streamed poll loops *)
(* (generate_video_stream, generate_i2v_stream, generate_image_stream).    *)
(*                                                                         *)
(* The specifications:                                                     *)
(*   Spec        several concurrent requests; a stream is followed only    *)
(*               through its life cycle (started, ended, aborted).         *)
(*   SpecStream  one request; its stream is followed poll by poll, with    *)
(*               wall-clock time, the status of every poll and every       *)
(*               event written to the caller.                              *)
(*   SpecStreamFair is SpecStream with the fairness of a running thread.   *)
(*   SpecFetch   one poll of one job: the engine's answer is classified    *)
(*               (check_comfyui_video_status), and the video of a          *)
(*               completed job is looked up in the outputs and downloaded  *)
(*               (download_comfyui_video).                                 *)
(*   SpecEvict   up to two passes of cleanup_old_files over a directory.   *)
(*   SpecClock   the cleanup thread's schedule (should_run_cleanup,        *)
(*               auto_cleanup_loop) over some days.                        *)
(*   SpecEndpoint  update_endpoint interleaved with submissions, polls and *)
(*               downloads.                                                *)
(*   SpecWorkflow  a video handler builds its workflow from a template.    *)
(*   SpecLocks   the `with` blocks of request threads and the cleanup      *)
(*               thread.                                                   *)
(*   SpecPayment  webhook_plisio deliveries for an invoice of the bot.     *)
(***************************************************************************)
EXTENDS Integers, Sequences, FiniteSets, TLC

(***************************************************************************)
(* Bounds of the model.  The configured maxima and timeouts are scaled     *)
(* down: server.py ships MAX_CONCURRENT_T2V = MAX_CONCURRENT_I2V = 5       *)
(* (lines 98-99), VIDEO_TIMEOUT = 600 (line 107) and an image timeout of   *)
(* 300 (line 1192).  Only their role as a ceiling or a deadline is used.   *)
(***************************************************************************)
NumRequests == 2
MAX_CONCURRENT_T2V == 1
MAX_CONCURRENT_I2V == 1
VIDEO_TIMEOUT == 13
IMAGE_TIMEOUT == 6
MaxQueryTime == 1

(* Program constants. *)
POLL_BACKOFF == 3
IMAGE_POLL_SLEEP == 2
HEARTBEAT_PERIOD == 5

Requests == 1..NumRequests
VideoClasses == {"t2v", "i2v"}
Classes == {"image", "t2v", "i2v"}

VARIABLES
    t2v_semaphore,  \* threading.Semaphore._value of t2v_semaphore
    i2v_semaphore,  \* threading.Semaphore._value of i2v_semaphore
    t2v_count,      \* global t2v_count
    i2v_count,      \* global i2v_count
    pc,             \* per request: position in its handler / generator
    cls,            \* per request: job class chosen by chat_completions
    resp,           \* per request: HTTP response the handler returns
    job,            \* per request: the engine returned a job id (prompt_id)
    engine_calls,   \* per request: the calls its handler made to the engine
    acquired,       \* per request: number of successful semaphore acquires
    released,       \* per request: number of semaphore releases
    connected,      \* per request: the caller's connection is open
    ended,          \* per request: how its generator ended
    elapsed,        \* per request: time.time() - start_time of its stream
    last_status,    \* per request: local last_status of the video streams
    last_message,   \* per request: local last_message of the image stream
    polled,         \* per request: the classified result of every poll so far
    events,         \* per request: the chunks written to the caller so far
    f_pc,           \* SpecFetch: position in the poll of a single job
    history,        \* SpecFetch: the engine's answer to GET /history/{id}
    task_outputs,   \* SpecFetch: task_info["outputs"], node by node
    poll_status,    \* SpecFetch: result of check_comfyui_video_status
    failed_downloads, \* SpecFetch: get_comfyui_video calls that returned None
    video_data,     \* SpecFetch: result of download_comfyui_video
    final_chunk,    \* SpecFetch: the terminal chunk written for the job
    artifact,       \* SpecFetch: the file {prompt_id}.mp4 in IMAGES_DIR
    prompt_id,      \* SpecFetch: the id of the job the request submitted
    out_filename,   \* SpecFetch: the name of the file opened for the video
    url_filename,   \* SpecFetch: the file name in the URL of the final chunk
    directory,      \* SpecEvict: the files of IMAGES_DIR, in listing order
    dir_before,     \* SpecEvict: the directory when the last pass started
    capacity,       \* SpecEvict: MAX_STORAGE_SIZE_GB
    cleanup_size,   \* SpecEvict: CLEANUP_SIZE_GB
    removed_names,  \* SpecEvict: the files the last pass removed, in order
    passes,         \* SpecEvict: number of passes run
    vanished,       \* SpecEvict: the file deleted by another thread meanwhile
    utc_now,        \* SpecClock: time.time() of the cleanup thread
    started,        \* SpecClock: when the process started
    server_tz,      \* SpecClock: UTC offset of the server's local timezone
    last_cleanup_date, \* global last_cleanup_date (-1: None)
    trigger_times,  \* SpecClock: the times at which a pass was triggered
    COMFYUI_API_URL,       \* global: base URL of the image engine
    COMFYUI_VIDEO_API_URL, \* global: base URL of the video engine
    update_response,       \* SpecEndpoint: the last response of update_endpoint
    completed_update,      \* SpecEndpoint: per type, the URL of the last update answered 200
    job_url,        \* SpecEndpoint: the base URL the job in flight was submitted to
    sent,           \* SpecEndpoint: the last request sent to an engine, with its URL
    w_pc, \* SpecWorkflow: position in the building of a workflow
    w_class, \* SpecWorkflow: the class of the request
    w_template, \* SpecWorkflow: the insertion points the template has
    workflow, \* SpecWorkflow: the workflow built from the template
    lock_holder, \* SpecLocks: the thread inside each lock
    l_path, \* SpecLocks: per request, whether it is admitted or rejected
    l_pos, \* SpecLocks: per request, the next `with` block of its path
    c_pc, \* SpecLocks: the cleanup thread, asleep or in a pass
    transactions, \* SpecPayment: the rows of transactions, by external_ref
    user_credits, \* SpecPayment: users.credits of the buyer
    invoice_has_txn_id, \* SpecPayment: Plisio gave the invoice a txn_id
    d_pc, \* SpecPayment: per delivery, position in webhook_plisio
    d_status, \* SpecPayment: per delivery, the status it carries
    d_txn_id \* SpecPayment: per delivery, whether it carries the txn_id

semVars == <<t2v_semaphore, i2v_semaphore, t2v_count, i2v_count>>
reqVars == <<pc, cls, resp, job, engine_calls, acquired, released>>
lifeVars == <<connected, ended>>
detailVars == <<elapsed, last_status, last_message, polled, events>>
fetchVars == <<f_pc, history, task_outputs, poll_status, failed_downloads,
               video_data, final_chunk, artifact, prompt_id, out_filename,
               url_filename>>
serverVars == <<semVars, reqVars, lifeVars, detailVars>>
evictVars == <<directory, dir_before, capacity, cleanup_size, removed_names,
               passes, vanished>>
clockVars == <<utc_now, started, server_tz, last_cleanup_date, trigger_times>>
endpointVars ==
    <<COMFYUI_API_URL, COMFYUI_VIDEO_API_URL, update_response, completed_update,
      job_url, sent>>
workflowVars == <<w_pc, w_class, w_template, workflow>>
locksVars == <<lock_holder, l_path, l_pos, c_pc>>
paymentVars == <<transactions, user_credits, invoice_has_txn_id, d_pc, d_status,
                 d_txn_id>>
vars == <<serverVars, fetchVars, evictVars, clockVars, endpointVars, workflowVars, locksVars, paymentVars>>

(* What the actions of each specification leave alone. *)
serverFrame == <<fetchVars, evictVars, clockVars, endpointVars, workflowVars, locksVars, paymentVars>>
fetchFrame == <<serverVars, evictVars, clockVars, endpointVars, workflowVars, locksVars, paymentVars>>
evictFrame == <<serverVars, fetchVars, clockVars, endpointVars, workflowVars, locksVars, paymentVars>>
clockFrame == <<serverVars, fetchVars, evictVars, endpointVars, workflowVars, locksVars, paymentVars>>
endpointFrame == <<serverVars, fetchVars, evictVars, clockVars, workflowVars, locksVars, paymentVars>>
workflowFrame == <<serverVars, fetchVars, evictVars, clockVars, endpointVars, locksVars, paymentVars>>
locksFrame == <<serverVars, fetchVars, evictVars, clockVars, endpointVars, workflowVars, paymentVars>>
paymentFrame == <<serverVars, fetchVars, evictVars, clockVars, endpointVars, workflowVars, locksVars>>

(***************************************************************************)
(* HTTP responses of the handlers.                                         *)
(***************************************************************************)
Response(code, kind, class, limit) ==
    [code |-> code, kind |-> kind, class |-> class, limit |-> limit]

NoResponse == Response(0, "none", "none", 0)

StreamResponse == Response(200, "stream", "none", 0)

(* jsonify({"error": "...服务繁忙，当前并发已达上限(MAX)"}), 429 *)
T2VBusyResponse == Response(429, "busy", "t2v", MAX_CONCURRENT_T2V)

I2VBusyResponse == Response(429, "busy", "i2v", MAX_CONCURRENT_I2V)

NoImageResponse == Response(400, "no_image", "none", 0)

SubmitFailedResponse == Response(500, "submit_failed", "none", 0)

NoJobIdResponse == Response(500, "no_job_id", "none", 0)

ErrorResponse == Response(500, "error", "none", 0)

(***************************************************************************)
(* threading.Semaphore: acquire(blocking=False) succeeds iff _value > 0    *)
(* and then decrements it; release() increments it (there is no upper      *)
(* bound: it is not a BoundedSemaphore).                                   *)
(***************************************************************************)
(* Mutant: the acquire does not look at the value. *)
CanAcquire_Always(value) == TRUE

CanAcquire(value) == value > 0

SemAcquire(value) == value - 1

SemRelease(value) == value + 1

(***************************************************************************)
(* chat_completions: the job class from the model name and the content.    *)
(* A model is described by the markers it carries.                         *)
(***************************************************************************)
Models == [video : BOOLEAN, i2v : BOOLEAN]

ServiceType(model, has_image) ==
    IF model.video
    THEN IF has_image \/ model.i2v THEN "i2v" ELSE "t2v"
    ELSE "image"

(***************************************************************************)
(* submit_video_to_comfyui / submit_to_comfyui: what the engine answers.   *)
(***************************************************************************)
EngineOutcomes ==
    {"ok", "no_prompt_id", "connection_error", "timeout", "http_error", "other_error"}

(* Mutant: the status of the engine's answer is not checked. *)
submit_video_to_comfyui_unchecked(outcome) ==
    IF outcome \in {"ok", "http_error"}
    THEN [raised |-> FALSE, prompt_id |-> TRUE]
    ELSE [raised |-> TRUE, prompt_id |-> FALSE]

(* Returns the prompt_id or raises: a missing prompt_id raises as well. *)
submit_video_to_comfyui(outcome) ==
    IF outcome = "ok"
    THEN [raised |-> FALSE, prompt_id |-> TRUE]
    ELSE [raised |-> TRUE, prompt_id |-> FALSE]

(* Returns the prompt_id, or None on any failure; never raises. *)
submit_to_comfyui(outcome) == outcome = "ok"

(* Mutant: the stats report the free slots as the current usage. *)
get_stats_free ==
    [current_video_t2v |-> t2v_semaphore,
     current_video_i2v |-> i2v_semaphore,
     max_concurrent_t2v |-> MAX_CONCURRENT_T2V,
     max_concurrent_i2v |-> MAX_CONCURRENT_I2V]

(* Lines 767-771: the concurrency fields of the stats, read under count_lock. *)
get_stats ==
    [current_video_t2v |-> MAX_CONCURRENT_T2V - t2v_semaphore,
     current_video_i2v |-> MAX_CONCURRENT_I2V - i2v_semaphore,
     max_concurrent_t2v |-> MAX_CONCURRENT_T2V,
     max_concurrent_i2v |-> MAX_CONCURRENT_I2V]

(* The calls of r to the engine after one more, unless the handler raised
   before making it. *)
Called(r, raises, call, outcome) ==
    IF raises THEN engine_calls
    ELSE [engine_calls EXCEPT ![r] = Append(@, [call |-> call, outcome |-> outcome])]

InitServer ==
    /\ t2v_semaphore = MAX_CONCURRENT_T2V
    /\ i2v_semaphore = MAX_CONCURRENT_I2V
    /\ t2v_count = 0
    /\ i2v_count = 0
    /\ pc = [r \in Requests |-> "new"]
    /\ cls = [r \in Requests |-> "none"]
    /\ resp = [r \in Requests |-> NoResponse]
    /\ job = [r \in Requests |-> FALSE]
    /\ engine_calls = [r \in Requests |-> <<>>]
    /\ acquired = [r \in Requests |-> 0]
    /\ released = [r \in Requests |-> 0]
    /\ connected = [r \in Requests |-> TRUE]
    /\ ended = [r \in Requests |-> "no"]
    /\ elapsed = [r \in Requests |-> 0]
    /\ last_status = [r \in Requests |-> "none"]
    /\ last_message = [r \in Requests |-> -1]
    /\ polled = [r \in Requests |-> <<>>]
    /\ events = [r \in Requests |-> <<>>]

(***************************************************************************)
(* handle_video_t2v                                                        *)
(***************************************************************************)
(* Mutant: the acquire sits inside the try block, so the busy path runs the
   finally block too (counter decremented, semaphore released). *)
handle_video_t2v_admit_in_try(r, model, has_image) ==
    /\ pc[r] = "new"
    /\ ServiceType(model, has_image) = "t2v"
    /\ cls' = [cls EXCEPT ![r] = "t2v"]
    /\ IF CanAcquire(t2v_semaphore)
       THEN /\ t2v_semaphore' = SemAcquire(t2v_semaphore)
            /\ acquired' = [acquired EXCEPT ![r] = @ + 1]
            /\ pc' = [pc EXCEPT ![r] = "count"]
            /\ UNCHANGED <<resp, released, t2v_count>>
       ELSE /\ resp' = [resp EXCEPT ![r] = T2VBusyResponse]
            /\ pc' = [pc EXCEPT ![r] = "returned"]
            /\ t2v_count' = t2v_count - 1
            /\ t2v_semaphore' = SemRelease(t2v_semaphore)
            /\ released' = [released EXCEPT ![r] = @ + 1]
            /\ UNCHANGED acquired
    /\ UNCHANGED <<i2v_semaphore, i2v_count, job, engine_calls>>
    /\ UNCHANGED <<lifeVars, detailVars>>

(* Lines 1284-1299: dispatch, then the non-blocking acquire or the 429. *)
handle_video_t2v_admit(r, model, has_image) ==
    /\ pc[r] = "new"
    /\ ServiceType(model, has_image) = "t2v"
    /\ cls' = [cls EXCEPT ![r] = "t2v"]
    /\ IF CanAcquire(t2v_semaphore)
       THEN /\ t2v_semaphore' = SemAcquire(t2v_semaphore)
            /\ acquired' = [acquired EXCEPT ![r] = @ + 1]
            /\ pc' = [pc EXCEPT ![r] = "count"]
            /\ resp' = resp
       ELSE /\ resp' = [resp EXCEPT ![r] = T2VBusyResponse]
            /\ pc' = [pc EXCEPT ![r] = "returned"]
            /\ UNCHANGED <<t2v_semaphore, acquired>>
    /\ UNCHANGED <<i2v_semaphore, t2v_count, i2v_count, job, engine_calls, released>>
    /\ UNCHANGED <<lifeVars, detailVars>>

(* Lines 1301-1302: with count_lock: t2v_count += 1 *)
handle_video_t2v_count(r) ==
    /\ pc[r] = "count"
    /\ cls[r] = "t2v"
    /\ t2v_count' = t2v_count + 1
    /\ pc' = [pc EXCEPT ![r] = "try"]
    /\ UNCHANGED <<t2v_semaphore, i2v_semaphore, i2v_count>>
    /\ UNCHANGED <<cls, resp, job, engine_calls, acquired, released, lifeVars, detailVars>>

(* The response the try block of a video handler ends with: `raises` is an
   exception outside the inner try (lines 1485-1487), `outcome` the engine's
   answer to the submission (lines 1337-1350, 1478-1483). *)
VideoTryResponse(raises, outcome) ==
    LET result == submit_video_to_comfyui(outcome) IN
    IF raises THEN ErrorResponse
    ELSE IF result.raised THEN SubmitFailedResponse
    ELSE IF ~result.prompt_id THEN NoJobIdResponse
    ELSE StreamResponse

(* Lines 1304-1350 and 1478-1487: prepare the workflow, submit, build the
   stream response; control then enters the finally block. *)
handle_video_t2v_try(r, raises, outcome) ==
    /\ pc[r] = "try"
    /\ cls[r] = "t2v"
    /\ resp' = [resp EXCEPT ![r] = VideoTryResponse(raises, outcome)]
    /\ job' = [job EXCEPT ![r] = resp'[r] = StreamResponse]
    /\ engine_calls' = Called(r, raises, "submit", outcome)
    /\ pc' = [pc EXCEPT ![r] = "finally"]
    /\ UNCHANGED <<semVars, cls, acquired, released, lifeVars, detailVars>>

(* Lines 1488-1490: finally: with count_lock: t2v_count -= 1 *)
handle_video_t2v_finally(r) ==
    /\ pc[r] = "finally"
    /\ cls[r] = "t2v"
    /\ t2v_count' = t2v_count - 1
    /\ pc' = [pc EXCEPT ![r] = "release"]
    /\ UNCHANGED <<t2v_semaphore, i2v_semaphore, i2v_count>>
    /\ UNCHANGED <<cls, resp, job, engine_calls, acquired, released, lifeVars, detailVars>>

(* Where a handler that returns resp leaves its request: a stream response is
   iterated by the server after the handler has returned. *)
AfterReturn(response) == IF response = StreamResponse THEN "ack" ELSE "returned"

(* Mutant: the release is not in a finally block, so only the path that
   returns the stream response reaches it. *)
handle_video_t2v_release_leaky(r) ==
    /\ pc[r] = "release"
    /\ cls[r] = "t2v"
    /\ IF resp[r] = StreamResponse
       THEN /\ t2v_semaphore' = SemRelease(t2v_semaphore)
            /\ released' = [released EXCEPT ![r] = @ + 1]
       ELSE UNCHANGED <<t2v_semaphore, released>>
    /\ pc' = [pc EXCEPT ![r] = AfterReturn(resp[r])]
    /\ UNCHANGED <<i2v_semaphore, t2v_count, i2v_count>>
    /\ UNCHANGED <<cls, resp, job, engine_calls, acquired, lifeVars, detailVars>>

(* Line 1491: t2v_semaphore.release(), then the handler returns. *)
handle_video_t2v_release(r) ==
    /\ pc[r] = "release"
    /\ cls[r] = "t2v"
    /\ t2v_semaphore' = SemRelease(t2v_semaphore)
    /\ released' = [released EXCEPT ![r] = @ + 1]
    /\ pc' = [pc EXCEPT ![r] = AfterReturn(resp[r])]
    /\ UNCHANGED <<i2v_semaphore, t2v_count, i2v_count>>
    /\ UNCHANGED <<cls, resp, job, engine_calls, acquired, lifeVars, detailVars>>

(***************************************************************************)
(* handle_video_i2v                                                        *)
(***************************************************************************)
(* Mutant: one budget for both classes: i2v takes its permit from the
   semaphore of t2v. *)
handle_video_i2v_admit_shared(r, model, has_image) ==
    /\ pc[r] = "new"
    /\ ServiceType(model, has_image) = "i2v"
    /\ cls' = [cls EXCEPT ![r] = "i2v"]
    /\ IF ~has_image
       THEN /\ resp' = [resp EXCEPT ![r] = NoImageResponse]
            /\ pc' = [pc EXCEPT ![r] = "returned"]
            /\ UNCHANGED <<t2v_semaphore, acquired>>
       ELSE IF CanAcquire(t2v_semaphore)
       THEN /\ t2v_semaphore' = SemAcquire(t2v_semaphore)
            /\ acquired' = [acquired EXCEPT ![r] = @ + 1]
            /\ pc' = [pc EXCEPT ![r] = "count"]
            /\ resp' = resp
       ELSE /\ resp' = [resp EXCEPT ![r] = I2VBusyResponse]
            /\ pc' = [pc EXCEPT ![r] = "returned"]
            /\ UNCHANGED <<t2v_semaphore, acquired>>
    /\ UNCHANGED <<i2v_semaphore, t2v_count, i2v_count, job, engine_calls, released>>
    /\ UNCHANGED <<lifeVars, detailVars>>

(* Lines 1493-1506: the image check, then the acquire or the 429. *)
handle_video_i2v_admit(r, model, has_image) ==
    /\ pc[r] = "new"
    /\ ServiceType(model, has_image) = "i2v"
    /\ cls' = [cls EXCEPT ![r] = "i2v"]
    /\ IF ~has_image
       THEN /\ resp' = [resp EXCEPT ![r] = NoImageResponse]
            /\ pc' = [pc EXCEPT ![r] = "returned"]
            /\ UNCHANGED <<i2v_semaphore, acquired>>
       ELSE IF CanAcquire(i2v_semaphore)
       THEN /\ i2v_semaphore' = SemAcquire(i2v_semaphore)
            /\ acquired' = [acquired EXCEPT ![r] = @ + 1]
            /\ pc' = [pc EXCEPT ![r] = "count"]
            /\ resp' = resp
       ELSE /\ resp' = [resp EXCEPT ![r] = I2VBusyResponse]
            /\ pc' = [pc EXCEPT ![r] = "returned"]
            /\ UNCHANGED <<i2v_semaphore, acquired>>
    /\ UNCHANGED <<t2v_semaphore, t2v_count, i2v_count, job, engine_calls, released>>
    /\ UNCHANGED <<lifeVars, detailVars>>

(* Lines 1508-1509: with count_lock: i2v_count += 1 *)
handle_video_i2v_count(r) ==
    /\ pc[r] = "count"
    /\ cls[r] = "i2v"
    /\ i2v_count' = i2v_count + 1
    /\ pc' = [pc EXCEPT ![r] = "try"]
    /\ UNCHANGED <<t2v_semaphore, i2v_semaphore, t2v_count>>
    /\ UNCHANGED <<cls, resp, job, engine_calls, acquired, released, lifeVars, detailVars>>

(* Mutant: a failed upload is swallowed and the handler goes on to submit. *)
handle_video_i2v_upload_unchecked(r, raises, upload_ok) ==
    /\ pc[r] = "try"
    /\ cls[r] = "i2v"
    /\ IF raises
       THEN /\ resp' = [resp EXCEPT ![r] = ErrorResponse]
            /\ pc' = [pc EXCEPT ![r] = "finally"]
       ELSE /\ pc' = [pc EXCEPT ![r] = "submit"]
            /\ resp' = resp
    /\ engine_calls' = Called(r, raises, "upload", IF upload_ok THEN "ok" ELSE "failed")
    /\ UNCHANGED <<semVars, cls, job, acquired, released, lifeVars, detailVars>>

(* Lines 1511-1554 and 1704-1706: prepare the workflow, decode and save the
   input image, upload it (upload_image_to_comfyui re-raises any failure).
   Any exception here is caught by the outer except: no submission. *)
handle_video_i2v_upload(r, raises, upload_ok) ==
    /\ pc[r] = "try"
    /\ cls[r] = "i2v"
    /\ IF raises \/ ~upload_ok
       THEN /\ resp' = [resp EXCEPT ![r] = ErrorResponse]
            /\ pc' = [pc EXCEPT ![r] = "finally"]
       ELSE /\ pc' = [pc EXCEPT ![r] = "submit"]
            /\ resp' = resp
    /\ engine_calls' = Called(r, raises, "upload", IF upload_ok THEN "ok" ELSE "failed")
    /\ UNCHANGED <<semVars, cls, job, acquired, released, lifeVars, detailVars>>

(* Lines 1556-1569 and 1697-1706: submit, build the stream response. *)
handle_video_i2v_submit(r, raises, outcome) ==
    /\ pc[r] = "submit"
    /\ cls[r] = "i2v"
    /\ resp' = [resp EXCEPT ![r] = VideoTryResponse(raises, outcome)]
    /\ job' = [job EXCEPT ![r] = resp'[r] = StreamResponse]
    /\ engine_calls' = Called(r, raises, "submit", outcome)
    /\ pc' = [pc EXCEPT ![r] = "finally"]
    /\ UNCHANGED <<semVars, cls, acquired, released, lifeVars, detailVars>>

(* Lines 1707-1716: finally: remove the input image (errors swallowed), then
   with count_lock: i2v_count -= 1 *)
handle_video_i2v_finally(r) ==
    /\ pc[r] = "finally"
    /\ cls[r] = "i2v"
    /\ i2v_count' = i2v_count - 1
    /\ pc' = [pc EXCEPT ![r] = "release"]
    /\ UNCHANGED <<t2v_semaphore, i2v_semaphore, t2v_count>>
    /\ UNCHANGED <<cls, resp, job, engine_calls, acquired, released, lifeVars, detailVars>>

(* Line 1717: i2v_semaphore.release(), then the handler returns. *)
handle_video_i2v_release(r) ==
    /\ pc[r] = "release"
    /\ cls[r] = "i2v"
    /\ i2v_semaphore' = SemRelease(i2v_semaphore)
    /\ released' = [released EXCEPT ![r] = @ + 1]
    /\ pc' = [pc EXCEPT ![r] = AfterReturn(resp[r])]
    /\ UNCHANGED <<t2v_semaphore, t2v_count, i2v_count>>
    /\ UNCHANGED <<cls, resp, job, engine_calls, acquired, lifeVars, detailVars>>

(***************************************************************************)
(* handle_image_generation: no semaphore, no counter.                      *)
(***************************************************************************)
(* Lines 1143-1173 and 1273-1282: build the workflow, submit, return the
   stream response, or a 500 when the submission gave no prompt_id or an
   exception was raised. *)
handle_image_generation(r, model, has_image, raises, outcome) ==
    /\ pc[r] = "new"
    /\ ServiceType(model, has_image) = "image"
    /\ cls' = [cls EXCEPT ![r] = "image"]
    /\ resp' = [resp EXCEPT ![r] =
                  IF raises THEN ErrorResponse
                  ELSE IF ~submit_to_comfyui(outcome) THEN SubmitFailedResponse
                  ELSE StreamResponse]
    /\ job' = [job EXCEPT ![r] = resp'[r] = StreamResponse]
    /\ engine_calls' = Called(r, raises, "submit", outcome)
    /\ pc' = [pc EXCEPT ![r] = AfterReturn(resp'[r])]
    /\ UNCHANGED <<semVars, acquired, released, lifeVars, detailVars>>

(***************************************************************************)
(* The caller closes its connection while its stream is open.              *)
(***************************************************************************)
Disconnect(r) ==
    /\ pc[r] \in {"ack", "loop"}
    /\ connected[r]
    /\ connected' = [connected EXCEPT ![r] = FALSE]
    /\ UNCHANGED <<semVars, reqVars, ended, detailVars>>

(***************************************************************************)
(* Life cycle of a generator (generate_video_stream, generate_i2v_stream,  *)
(* generate_image_stream); the detail variables are set by the callers.    *)
(* A write to a closed connection fails and the server closes the          *)
(* generator at the yield it is suspended at.                              *)
(***************************************************************************)
(* The first chunk is yielded and the poll loop entered. *)
StreamBegin(r) ==
    /\ pc[r] = "ack"
    /\ connected[r]
    /\ pc' = [pc EXCEPT ![r] = "loop"]
    /\ UNCHANGED <<semVars, cls, resp, job, engine_calls, acquired, released, lifeVars>>

(* The loop is left with a terminal chunk and [DONE]. *)
StreamFinish(r, how) ==
    /\ pc[r] = "loop"
    /\ connected[r]
    /\ how \in (IF cls[r] = "image" THEN {"completed", "timed_out"}
                ELSE {"completed", "failed", "timed_out"})
    /\ pc' = [pc EXCEPT ![r] = "done"]
    /\ ended' = [ended EXCEPT ![r] = how]
    /\ UNCHANGED <<semVars, cls, resp, job, engine_calls, acquired, released, connected>>

(* Mutant: a failed write goes unnoticed and the generator runs on. *)
StreamClose_Unnoticed(r) ==
    /\ pc[r] \in {"ack", "loop"}
    /\ ~connected[r]
    /\ UNCHANGED <<semVars, reqVars, lifeVars>>

(* The generator is closed at a yield whose write failed. *)
StreamClose(r) ==
    /\ pc[r] \in {"ack", "loop"}
    /\ ~connected[r]
    /\ pc' = [pc EXCEPT ![r] = "aborted"]
    /\ ended' = [ended EXCEPT ![r] = "aborted"]
    /\ UNCHANGED <<semVars, cls, resp, job, engine_calls, acquired, released, connected>>

(* Spec follows a stream through its life cycle only. *)
StreamStart(r) == StreamBegin(r) /\ UNCHANGED detailVars

StreamEnd(r, how) == StreamFinish(r, how) /\ UNCHANGED detailVars

StreamAbort(r) == StreamClose(r) /\ UNCHANGED detailVars

(* An iteration of the poll loop that does not leave it. *)
StreamStay(r) ==
    /\ pc[r] = "loop"
    /\ connected[r]
    /\ UNCHANGED <<semVars, reqVars, lifeVars>>

(***************************************************************************)
(* The chunks written to the caller: the delta's role and content (by      *)
(* what the text says) and the choice's finish_reason; the [DONE] line.    *)
(***************************************************************************)
Chunk(role, content, finish_reason) ==
    [role |-> role, content |-> content, finish_reason |-> finish_reason]

(* Lines 1358-1365, 1181-1188. *)
AckChunk == Chunk("assistant", "submitted", "none")

(* Lines 1397-1404: content is current_msg for the status. *)
StatusChunk(status) == Chunk("none", status, "none")

(* Lines 1376-1383, 1408-1415, 1249-1256: empty content. *)
KeepaliveChunk == Chunk("none", "", "none")

(* Mutant: the final chunk always carries a link. *)
FinalChunk_AlwaysUrl(output_url) == Chunk("none", "url", "stop")

(* Lines 1435-1445, 1230-1240: the link, or the text of a completion without
   a retrievable video. *)
FinalChunk(output_url) ==
    Chunk("none", IF output_url THEN "url" ELSE "no_video", "stop")

(* Lines 1452-1460. *)
FailChunk == Chunk("none", "failed", "stop")

(* Mutant: the timeout chunk does not close the choice. *)
TimeoutChunk_Open == Chunk("none", "timeout", "none")

(* Lines 1468-1475, 1263-1270. *)
TimeoutChunk == Chunk("none", "timeout", "stop")

(* yield "data: [DONE]\n\n" *)
DoneMarker == Chunk("none", "[DONE]", "n/a")

(***************************************************************************)
(* check_comfyui_video_status: the engine's answer to GET /history/{id},   *)
(* by its shape, and the classification of it.                             *)
(***************************************************************************)
HistoryBodies ==
    [http : {"200"}, has_key : {TRUE},
     outputs : {"absent", "empty", "nonempty"},
     status_str : {"absent", "success", "error", "running"},
     completed : BOOLEAN, error : BOOLEAN]

HistoryResponses ==
    HistoryBodies \cup
    [http : {"non200", "exception"}, has_key : {FALSE}, outputs : {"absent"},
     status_str : {"absent"}, completed : {FALSE}, error : {FALSE}] \cup
    [http : {"200"}, has_key : {FALSE}, outputs : {"absent"},
     status_str : {"absent"}, completed : {FALSE}, error : {FALSE}]

StatusData(status, outputs) == [status |-> status, outputs |-> outputs]

(* Mutant: an error mark is looked at before the outputs. *)
check_comfyui_video_status_error_first(h) ==
    IF h.http # "200" THEN StatusData("NONE", FALSE)
    ELSE IF ~h.has_key THEN StatusData("IN_QUEUE", FALSE)
    ELSE IF h.error \/ h.status_str = "error" THEN StatusData("FAILED", FALSE)
    ELSE IF h.outputs = "nonempty" THEN StatusData("COMPLETED", TRUE)
    ELSE IF h.status_str = "success" \/ h.completed
    THEN StatusData("COMPLETED", FALSE)
    ELSE StatusData("IN_PROGRESS", FALSE)

(* Mutant: a poll that fails at transport level counts as a failed job. *)
check_comfyui_video_status_strict(h) ==
    IF h.http # "200" \/ h.error \/ h.status_str = "error"
    THEN StatusData("FAILED", FALSE)
    ELSE StatusData("IN_PROGRESS", FALSE)

(* Lines 596-657.  A status other than 200 (line 602) and an exception of the
   request or of response.json() on a malformed body (line 653) return None,
   given here as the status "NONE". *)
check_comfyui_video_status(h) ==
    IF h.http # "200" THEN StatusData("NONE", FALSE)
    ELSE IF ~h.has_key THEN StatusData("IN_QUEUE", FALSE)
    ELSE IF h.outputs = "nonempty" THEN StatusData("COMPLETED", TRUE)
    ELSE IF h.status_str = "success" THEN StatusData("COMPLETED", FALSE)
    ELSE IF h.completed THEN StatusData("COMPLETED", FALSE)
    ELSE IF h.error \/ h.status_str = "error" THEN StatusData("FAILED", FALSE)
    ELSE StatusData("IN_PROGRESS", FALSE)

(***************************************************************************)
(* generate_video_stream / generate_i2v_stream                             *)
(***************************************************************************)
(* Mutant: the deadline is tested with <=. *)
WithinTimeout_Inclusive(e, timeout) == e <= timeout

(* Lines 1371, 1590, 1195: while time.time() - start_time < timeout *)
WithinTimeout(e, timeout) == e < timeout

(* Mutant: a failed job does not end the loop. *)
LoopExit_IgnoreFailed(status) ==
    IF status = "COMPLETED" THEN "completed" ELSE "continue"

(* Lines 1417, 1449, 1464: how an iteration goes on after its first chunk. *)
LoopExit(status) ==
    IF status = "COMPLETED" THEN "completed"
    ELSE IF status = "FAILED" THEN "failed"
    ELSE "continue"

(* Mutant: every queued or running poll is announced. *)
Announces_EveryPoll(status, last) == status \in {"IN_QUEUE", "IN_PROGRESS"}

(* Lines 1388-1396: a status is announced when it differs from last_status and
   has a message (IN_QUEUE, IN_PROGRESS). *)
Announces(status, last) ==
    status # last /\ status \in {"IN_QUEUE", "IN_PROGRESS"}

(* Lines 1353-1369, 1176-1193: the generator's first next(): the
   acknowledgment is yielded, then start_time and last_status are set. *)
generate_stream_ack(r) ==
    /\ pc[r] = "ack"
    /\ IF connected[r]
       THEN /\ StreamBegin(r)
            /\ events' = [events EXCEPT ![r] = <<AckChunk>>]
            /\ elapsed' = [elapsed EXCEPT ![r] = 0]
            /\ last_status' = [last_status EXCEPT ![r] =
                                 IF cls[r] = "image" THEN @ ELSE "IN_QUEUE"]
            /\ UNCHANGED <<last_message, polled>>
       ELSE StreamClose(r) /\ UNCHANGED detailVars

(* Lines 1371-1464 (1590-1683): one iteration of the video poll loop.  h is
   the engine's answer, query_time the duration of the status query, video_ok
   whether download_comfyui_video returned data. *)
generate_video_stream_poll(r, h, query_time, video_ok) ==
    LET status_data == check_comfyui_video_status(h)
        status == status_data.status
        now == elapsed[r] + query_time
        announce == Announces(status, last_status[r])
        first == IF announce THEN StatusChunk(status) ELSE KeepaliveChunk
        exit == LoopExit(status)
        output_url == status_data.outputs /\ video_ok
    IN
    /\ pc[r] = "loop"
    /\ cls[r] \in VideoClasses
    /\ WithinTimeout(elapsed[r], VIDEO_TIMEOUT)
    /\ polled' = [polled EXCEPT ![r] = Append(@, status)]
    /\ UNCHANGED last_message
    /\ IF status = "NONE"
       THEN \* time.sleep(3), keep-alive, continue
            /\ elapsed' = [elapsed EXCEPT ![r] = now + POLL_BACKOFF]
            /\ UNCHANGED last_status
            /\ IF connected[r]
               THEN /\ StreamStay(r)
                    /\ events' = [events EXCEPT ![r] = Append(@, KeepaliveChunk)]
               ELSE StreamClose(r) /\ UNCHANGED events
       ELSE IF ~connected[r]
       THEN \* the write of the first chunk fails
            /\ StreamClose(r)
            /\ elapsed' = [elapsed EXCEPT ![r] = now]
            /\ UNCHANGED <<last_status, events>>
       ELSE /\ last_status' = [last_status EXCEPT ![r] =
                                 IF announce THEN status ELSE @]
            /\ IF exit = "completed"
               THEN /\ StreamFinish(r, "completed")
                    /\ elapsed' = [elapsed EXCEPT ![r] = now]
                    /\ events' = [events EXCEPT ![r] =
                          @ \o <<first, FinalChunk(output_url), DoneMarker>>]
               ELSE IF exit = "failed"
               THEN /\ StreamFinish(r, "failed")
                    /\ elapsed' = [elapsed EXCEPT ![r] = now]
                    /\ events' = [events EXCEPT ![r] =
                          @ \o <<first, FailChunk, DoneMarker>>]
               ELSE \* time.sleep(3)
                    /\ StreamStay(r)
                    /\ elapsed' = [elapsed EXCEPT ![r] = now + POLL_BACKOFF]
                    /\ events' = [events EXCEPT ![r] = Append(@, first)]

(* Lines 1466-1476 (1685-1695): the loop condition fails. *)
generate_video_stream_timeout(r) ==
    /\ pc[r] = "loop"
    /\ cls[r] \in VideoClasses
    /\ ~WithinTimeout(elapsed[r], VIDEO_TIMEOUT)
    /\ UNCHANGED <<elapsed, last_status, last_message, polled>>
    /\ IF connected[r]
       THEN /\ StreamFinish(r, "timed_out")
            /\ events' = [events EXCEPT ![r] = @ \o <<TimeoutChunk, DoneMarker>>]
       ELSE StreamClose(r) /\ UNCHANGED events

(***************************************************************************)
(* generate_image_stream                                                   *)
(***************************************************************************)
(* get_comfyui_history's answer: None (any failure), a history without the
   id, an entry without "outputs", outputs without an image, outputs with
   an image, and the entry of a job the engine reports as failed
   (status.status_str = "error", no image among its outputs). *)
ImageHistories ==
    {"none", "absent", "no_outputs", "outputs_no_image", "outputs_image", "error"}

(* Lines 1196-1226: what an iteration finds: the image was saved
   ("COMPLETED"), outputs were there but no image could be retrieved
   ("NO_ARTIFACT"), the entry reports an error, which the loop does not look
   at ("ERROR"), or there is nothing yet ("PENDING"). *)
ImageStatus(image_history, image_ok) ==
    IF image_history = "outputs_image" /\ image_ok THEN "COMPLETED"
    ELSE IF image_history \in {"outputs_no_image", "outputs_image"}
    THEN "NO_ARTIFACT"
    ELSE IF image_history = "error" THEN "ERROR"
    ELSE "PENDING"

(* Lines 1245-1248: a heartbeat is due when the whole seconds elapsed are a
   positive multiple of 5 and were not announced yet. *)
HeartbeatDue(e, last) == e > 0 /\ e % HEARTBEAT_PERIOD = 0 /\ e # last

(* Lines 1195-1259: one iteration of the image poll loop.  fetch_time is the
   duration of get_comfyui_image when it is called. *)
generate_image_stream_poll(r, image_history, image_ok, query_time, fetch_time) ==
    LET status == ImageStatus(image_history, image_ok)
        now == elapsed[r] + query_time
                 + (IF image_history = "outputs_image" THEN fetch_time ELSE 0)
        beat == HeartbeatDue(now, last_message[r])
    IN
    /\ pc[r] = "loop"
    /\ cls[r] = "image"
    /\ WithinTimeout(elapsed[r], IMAGE_TIMEOUT)
    /\ polled' = [polled EXCEPT ![r] = Append(@, status)]
    /\ UNCHANGED last_status
    /\ IF status = "COMPLETED"
       THEN /\ elapsed' = [elapsed EXCEPT ![r] = now]
            /\ UNCHANGED last_message
            /\ IF connected[r]
               THEN /\ StreamFinish(r, "completed")
                    /\ events' = [events EXCEPT ![r] =
                          @ \o <<FinalChunk(TRUE), DoneMarker>>]
               ELSE StreamClose(r) /\ UNCHANGED events
       ELSE IF beat /\ ~connected[r]
       THEN /\ StreamClose(r)
            /\ elapsed' = [elapsed EXCEPT ![r] = now]
            /\ UNCHANGED <<last_message, events>>
       ELSE \* heartbeat if due, then time.sleep(2); an abandoned stream
            \* goes on polling while no chunk is written
            /\ pc[r] = "loop"
            /\ UNCHANGED <<semVars, reqVars, lifeVars>>
            /\ elapsed' = [elapsed EXCEPT ![r] = now + IMAGE_POLL_SLEEP]
            /\ last_message' = [last_message EXCEPT ![r] = IF beat THEN now ELSE @]
            /\ events' = [events EXCEPT ![r] =
                  IF beat THEN Append(@, KeepaliveChunk) ELSE @]

(* Lines 1261-1271: the loop condition fails. *)
generate_image_stream_timeout(r) ==
    /\ pc[r] = "loop"
    /\ cls[r] = "image"
    /\ ~WithinTimeout(elapsed[r], IMAGE_TIMEOUT)
    /\ UNCHANGED <<elapsed, last_status, last_message, polled>>
    /\ IF connected[r]
       THEN /\ StreamFinish(r, "timed_out")
            /\ events' = [events EXCEPT ![r] = @ \o <<TimeoutChunk, DoneMarker>>]
       ELSE StreamClose(r) /\ UNCHANGED events

(***************************************************************************)
(* download_comfyui_video: the outputs of a completed job, node by node in *)
(* the iteration order of the dict, and the file the fetcher returns.      *)
(***************************************************************************)
MaxNodes == 2

(* A node of the outputs: whether it has a "videos" entry with a filename, *)
(* what the filename of its first "images" entry is (none, a name without  *)
(* a media extension, a name ending in .mp4/.webm/.avi/.mov/.gif), its     *)
(* "animated" flag, and whether it has a "gifs" entry with a filename.     *)
OutputNodes ==
    {n \in [videos : {"absent", "file"},
            images : {"absent", "nofile", "other", "media"},
            animated : BOOLEAN,
            gifs : {"absent", "file"}] :
        n.images = "absent" => ~n.animated}

Payloads == UNION {[1..n -> OutputNodes] : n \in 0..MaxNodes}

(* Mutant: only the extension makes an images entry a video. *)
ImagesIsVideo_ByExtension(node) == node.images = "media"

(* Line 700: filename and (filename.endswith(...) or is_animated) *)
ImagesIsVideo(node) ==
    /\ node.images \in {"other", "media"}
    /\ (node.images = "media" \/ node.animated)

File(i, field) == [node |-> i, field |-> field]

(* None *)
NoData == File(0, "None")

(* Lines 672-718: the files get_comfyui_video is called for within one node,
   in the order of the calls. *)
NodeFiles(node, i) ==
    (IF node.videos = "file" THEN <<File(i, "videos")>> ELSE <<>>)
    \o (IF ImagesIsVideo(node) THEN <<File(i, "images")>> ELSE <<>>)
    \o (IF node.gifs = "file" THEN <<File(i, "gifs")>> ELSE <<>>)

(* Line 668: for node_id, node_output in outputs.items() *)
RECURSIVE ScanOrder(_, _)
ScanOrder(payload, i) ==
    IF i > Len(payload) THEN <<>>
    ELSE NodeFiles(payload[i], i) \o ScanOrder(payload, i + 1)

(* Lines 659-727: the first file whose download returns data is returned;
   fails is the number of get_comfyui_video calls that return None before
   one succeeds.  None when every call failed or there was none to make. *)
download_comfyui_video(payload, fails) ==
    LET located == ScanOrder(payload, 1) IN
    IF fails < Len(located) THEN located[fails + 1] ELSE NoData

(* Before a chunk is written. *)
NoChunk == Chunk("none", "", "n/a")

(* A history entry of a job that completed with outputs. *)
CompletedHistory ==
    [http |-> "200", has_key |-> TRUE, outputs |-> "nonempty",
     status_str |-> "success", completed |-> TRUE, error |-> FALSE]

(* Outputs with one node that carries a video. *)
VideoOutputs ==
    <<[videos |-> "file", images |-> "absent", animated |-> FALSE,
       gifs |-> "absent"]>>

(* The ids the engine gives to jobs. *)
JobIds == {"job-a", "job-b"}

NoFile == <<>>

(* Line 1424: out_filename = f"{prompt_id}.mp4" *)
OutFilename(id) == <<id, ".mp4">>

(* The poll of SpecFetch is not running. *)
InitIdle ==
    /\ f_pc = "idle"
    /\ history = CompletedHistory
    /\ task_outputs = <<>>
    /\ poll_status = StatusData("NONE", FALSE)
    /\ failed_downloads = 0
    /\ video_data = NoData
    /\ final_chunk = NoChunk
    /\ artifact = "absent"
    /\ prompt_id = "job-a"
    /\ out_filename = NoFile
    /\ url_filename = NoFile

(* Line 1372: status_data = check_comfyui_video_status(prompt_id) *)
PollOnce ==
    /\ f_pc = "poll"
    /\ poll_status' = check_comfyui_video_status(history)
    /\ f_pc' = IF poll_status'.status = "COMPLETED" THEN "completed"
               ELSE "classified"
    /\ UNCHANGED <<history, task_outputs, failed_downloads, video_data,
                   final_chunk, artifact, prompt_id, out_filename, url_filename>>

(* Lines 1417-1447: the COMPLETED branch of the poll loop: the video is
   downloaded when there are outputs.  With data, open(out_path, "wb")
   (line 1426) creates the file under its final name, still without its
   content; without data the final chunk is written right away. *)
CompleteJob(fails) ==
    /\ f_pc = "completed"
    /\ fails <= Len(ScanOrder(task_outputs, 1))
    /\ video_data' = IF poll_status.outputs
                     THEN download_comfyui_video(task_outputs, fails)
                     ELSE NoData
    /\ failed_downloads' = fails
    /\ IF video_data' # NoData
       THEN /\ artifact' = "partial"
            /\ out_filename' = OutFilename(prompt_id)
            /\ f_pc' = "writing"
            /\ UNCHANGED final_chunk
       ELSE /\ final_chunk' = FinalChunk(FALSE)
            /\ f_pc' = "reported"
            /\ UNCHANGED <<artifact, out_filename>>
    /\ UNCHANGED <<history, task_outputs, poll_status, prompt_id, url_filename>>

(* Mutant: the final chunk is written while the file is still open. *)
WriteArtifact_EmitFirst ==
    /\ f_pc = "writing"
    /\ url_filename' = out_filename
    /\ final_chunk' = FinalChunk(TRUE)
    /\ f_pc' = "reported"
    /\ UNCHANGED <<history, task_outputs, poll_status, failed_downloads,
                   video_data, artifact, prompt_id, out_filename>>

(* Lines 1427-1445: f.write(video_data) and the close of the file complete
   the artifact; the URL is built from out_filename (line 1430) and the
   final chunk carries it. *)
WriteArtifact ==
    /\ f_pc = "writing"
    /\ artifact' = "complete"
    /\ url_filename' = out_filename
    /\ final_chunk' = FinalChunk(TRUE)
    /\ f_pc' = "reported"
    /\ UNCHANGED <<history, task_outputs, poll_status, failed_downloads,
                   video_data, prompt_id, out_filename>>

(***************************************************************************)
(* cleanup_old_files: the files of IMAGES_DIR in the order of os.listdir,  *)
(* each with its name, size and modification time, and one eviction pass.  *)
(* Sizes, the capacity (MAX_STORAGE_SIZE_GB, 10 in the code) and the       *)
(* amount to free (CLEANUP_SIZE_GB, 2) are in one unit.                    *)
(***************************************************************************)
MaxFiles == 3
MaxCapacity == 3

FileSizes == {1, 2}

Directories ==
    UNION {{d \in [1..n -> [name : 1..MaxFiles, size : FileSizes,
                            mtime : 1..MaxFiles]] :
               \A i \in 1..n : d[i].name = i} : n \in 0..MaxFiles}

(* A file deleted by another thread during the pass (file = 0: none), and
   where the pass is at that moment: between isfile and getsize in
   get_directory_size ("size"), between isfile and getmtime in the listing
   of cleanup_old_files ("listing"), or after the listing, before its
   os.remove ("remove"). *)
Vanishings ==
    {[file |-> 0, phase |-> "none"]} \cup
    [file : 1..MaxFiles, phase : {"size", "listing", "remove"}]

NoVanishing == [file |-> 0, phase |-> "none"]

Without(dir, name) == SelectSeq(dir, LAMBDA f : f.name # name)

RECURSIVE TotalSize(_)
TotalSize(dir) ==
    IF dir = <<>> THEN 0 ELSE Head(dir).size + TotalSize(Tail(dir))

(* Lines 226-236: the sizes are added up in listing order; getsize of a file
   that is gone raises, the exception ends the loop and the sum so far is
   returned. *)
RECURSIVE get_directory_size(_, _)
get_directory_size(dir, gone) ==
    IF dir = <<>> THEN 0
    ELSE IF Head(dir).name = gone THEN 0
    ELSE Head(dir).size + get_directory_size(Tail(dir), gone)

(* Mutant: the pass runs whatever the total. *)
OverCapacity_Always(total, limit) == TRUE

(* Lines 246-249: if total_size_gb <= MAX_STORAGE_SIZE_GB: return *)
OverCapacity(total, limit) == total > limit

(* Mutant: the listing is not sorted. *)
SortByMtime_Unsorted(listing) == listing

(* Line 267: files_info.sort(key=lambda x: x['mtime']), a stable sort. *)
RECURSIVE SortByMtime(_)
SortByMtime(listing) ==
    IF listing = <<>> THEN <<>>
    ELSE LET sorted == SortByMtime(SubSeq(listing, 1, Len(listing) - 1))
             f == listing[Len(listing)]
         IN SelectSeq(sorted, LAMBDA g : g.mtime <= f.mtime)
            \o <<f>>
            \o SelectSeq(sorted, LAMBDA g : g.mtime > f.mtime)

(* Lines 276-287: the names removed from sorted[i] on, cleaned_size being
   freed so far; the os.remove of a file that is gone fails and is passed
   over. *)
RECURSIVE RemoveLoop(_, _, _, _, _)
RemoveLoop(sorted, i, cleaned_size, cleanup_bytes, gone) ==
    IF i > Len(sorted) \/ cleaned_size >= cleanup_bytes THEN <<>>
    ELSE IF sorted[i].name = gone
    THEN RemoveLoop(sorted, i + 1, cleaned_size, cleanup_bytes, gone)
    ELSE <<sorted[i].name>>
         \o RemoveLoop(sorted, i + 1, cleaned_size + sorted[i].size,
                       cleanup_bytes, gone)

(* Lines 238-298: the names the pass removes, in order.  getmtime of a file
   that is gone raises in the listing loop and the outer except ends the
   pass. *)
cleanup_old_files(dir, limit, cleanup_bytes, vanish) ==
    LET gone_at(phase) == IF vanish.phase = phase THEN vanish.file ELSE 0
        total_size == get_directory_size(dir, gone_at("size"))
        listed == Without(dir, gone_at("size"))
    IN
    IF ~OverCapacity(total_size, limit) THEN <<>>
    ELSE IF \E i \in 1..Len(listed) : listed[i].name = gone_at("listing")
    THEN <<>>
    ELSE RemoveLoop(SortByMtime(listed), 1, 0, cleanup_bytes, gone_at("remove"))

(* No pass has run. *)
InitEvictIdle ==
    /\ directory = <<>>
    /\ dir_before = <<>>
    /\ capacity = MaxCapacity
    /\ cleanup_size = 1
    /\ removed_names = <<>>
    /\ passes = 0
    /\ vanished = NoVanishing

(* One call of cleanup_old_files, with the file another thread deletes
   meanwhile, if any. *)
CleanupPass(vanish) ==
    /\ passes < 2
    /\ vanish.file = 0 \/ \E i \in 1..Len(directory) : directory[i].name = vanish.file
    /\ LET names == cleanup_old_files(directory, capacity, cleanup_size, vanish)
       IN /\ removed_names' = names
          /\ directory' =
                SelectSeq(directory,
                          LAMBDA f : /\ f.name # vanish.file
                                     /\ \A k \in 1..Len(names) : names[k] # f.name)
    /\ dir_before' = directory
    /\ vanished' = vanish
    /\ passes' = passes + 1
    /\ UNCHANGED <<capacity, cleanup_size>>
(***************************************************************************)
(* should_run_cleanup / auto_cleanup_loop: the clock of the cleanup thread *)
(* in seconds of UTC, counted from a midnight.                             *)
(***************************************************************************)
MaxDays == 2

CLEANUP_CHECK_INTERVAL == 600
CLEANUP_HOUR == 3
SHANGHAI_UTC_OFFSET == 8

SecondsPerHour == 60 * 60
SecondsPerDay == 24 * SecondsPerHour

(* When the process starts, on the first day. *)
StartTimes == {h * SecondsPerHour + m : h \in 0..23, m \in {0, 1800}}

(* UTC offsets, in hours, of the server's own timezone. *)
ServerTimezones == {-5, 0, 8}

(* What an iteration of the loop takes beyond its sleep. *)
LoopDelays == {0, 300}

(* Mutant: the hour and the date are taken in the server's timezone. *)
ReferenceOffset_Local(tz) == tz

(* Line 308: shanghai_tz = timezone(timedelta(hours=8)) *)
ReferenceOffset(tz) == SHANGHAI_UTC_OFFSET

(* Lines 309-312: now_shanghai.date() and now_shanghai.hour *)
DateAt(t, offset) == (t + offset * SecondsPerHour) \div SecondsPerDay

HourAt(t, offset) == ((t + offset * SecondsPerHour) % SecondsPerDay) \div SecondsPerHour

(* Lines 300-325: what should_run_cleanup returns at time t. *)
should_run_cleanup(t, last_date, tz) ==
    /\ last_date # DateAt(t, ReferenceOffset(tz))
    /\ HourAt(t, ReferenceOffset(tz)) = CLEANUP_HOUR

(* The cleanup thread is not followed. *)
InitClockIdle ==
    /\ utc_now = 0
    /\ started = 0
    /\ server_tz = 0
    /\ last_cleanup_date = -1
    /\ trigger_times = <<>>

(* Lines 331-344: one iteration of auto_cleanup_loop: the sleep, then the
   test and, when it holds, the pass. *)
auto_cleanup_loop(delay) ==
    /\ utc_now < MaxDays * SecondsPerDay
    /\ utc_now' = utc_now + CLEANUP_CHECK_INTERVAL + delay
    /\ IF should_run_cleanup(utc_now', last_cleanup_date, server_tz)
       THEN /\ last_cleanup_date' = DateAt(utc_now', ReferenceOffset(server_tz))
            /\ trigger_times' = Append(trigger_times, utc_now')
       ELSE UNCHANGED <<last_cleanup_date, trigger_times>>
    /\ UNCHANGED <<started, server_tz>>
(***************************************************************************)
(* update_endpoint and the reads of the two endpoint globals.  A string is *)
(* a sequence of tokens; "/" is the character rstrip removes.              *)
(***************************************************************************)
MaxSlashes == 1

InitialImageUrl == <<"http://image0">>
InitialVideoUrl == <<"https://video0">>

RECURSIVE Slashes(_)
Slashes(n) == IF n = 0 THEN <<>> ELSE <<"/">> \o Slashes(n - 1)

(* The url field of an update request; <<>> is a missing or empty one. *)
NewUrls ==
    {<<>>} \cup {Slashes(n) : n \in 1..MaxSlashes}
           \cup {<<h>> \o Slashes(n) : h \in {"http://a", "http://b"}, n \in 0..MaxSlashes}

(* The type field of an update request; "" is a missing one. *)
EndpointTypes == {"image", "video", "audio", ""}

(* The Authorization header of an update request; <<>> is none. *)
AuthHeaders ==
    {<<>>, <<"Bearer ", "key">>, <<"key">>, <<"Bearer ", "wrong">>}

SERVER_AUTH_KEY == <<"key">>

(* new_url.rstrip('/') *)
RECURSIVE rstrip(_)
rstrip(s) ==
    IF s # <<>> /\ s[Len(s)] = "/"
    THEN rstrip(SubSeq(s, 1, Len(s) - 1))
    ELSE s

(* auth_header.replace("Bearer ", "") *)
RECURSIVE StripBearer(_)
StripBearer(s) ==
    IF s = <<>> THEN <<>>
    ELSE IF Head(s) = "Bearer " THEN StripBearer(Tail(s))
    ELSE <<Head(s)>> \o StripBearer(Tail(s))

(* Line 789 *)
Unauthorized(auth_header) ==
    auth_header = <<>> \/ StripBearer(auth_header) # SERVER_AUTH_KEY

(* Mutant: an update writes both globals. *)
AssignEndpoint_Both(endpoint_type, new_url, urls) ==
    [image |-> rstrip(new_url), video |-> rstrip(new_url)]

(* Lines 806-811: the global an update rebinds. *)
AssignEndpoint(endpoint_type, new_url, urls) ==
    IF endpoint_type = "image"
    THEN [urls EXCEPT !.image = rstrip(new_url)]
    ELSE IF endpoint_type = "video"
    THEN [urls EXCEPT !.video = rstrip(new_url)]
    ELSE urls

NoUpdate == [status |-> 0, type |-> "", new_url |-> <<>>]

(* Lines 784-821: the response of update_endpoint. *)
UpdateResponse(auth_header, json_ok, endpoint_type, new_url) ==
    IF Unauthorized(auth_header) THEN [NoUpdate EXCEPT !.status = 401]
    ELSE IF ~json_ok THEN [NoUpdate EXCEPT !.status = 500]
    ELSE IF endpoint_type = "" \/ new_url = <<>> THEN [NoUpdate EXCEPT !.status = 400]
    ELSE IF endpoint_type \notin {"image", "video"} THEN [NoUpdate EXCEPT !.status = 400]
    ELSE [status |-> 200, type |-> endpoint_type, new_url |-> rstrip(new_url)]

NoRequest == [service |-> "", url |-> <<>>]

(* No request to the endpoints is followed. *)
InitEndpointIdle ==
    /\ COMFYUI_API_URL = InitialImageUrl
    /\ COMFYUI_VIDEO_API_URL = InitialVideoUrl
    /\ update_response = NoUpdate
    /\ completed_update = [image |-> InitialImageUrl, video |-> InitialVideoUrl]
    /\ job_url = <<>>
    /\ sent = NoRequest

(* Mutant: the globals are assigned before the request is validated. *)
update_endpoint_assign_first(auth_header, json_ok, endpoint_type, new_url) ==
    LET response == UpdateResponse(auth_header, json_ok, endpoint_type, new_url)
        urls == [image |-> COMFYUI_API_URL, video |-> COMFYUI_VIDEO_API_URL]
        after == AssignEndpoint(endpoint_type, new_url, urls)
    IN  /\ update_response' = response
        /\ completed_update' =
              IF response.status = 200
              THEN [completed_update EXCEPT ![response.type] = response.new_url]
              ELSE completed_update
        /\ COMFYUI_API_URL' = after.image
        /\ COMFYUI_VIDEO_API_URL' = after.video
        /\ UNCHANGED <<job_url, sent>>

(* Lines 784-821: one call of update_endpoint. *)
update_endpoint(auth_header, json_ok, endpoint_type, new_url) ==
    LET response == UpdateResponse(auth_header, json_ok, endpoint_type, new_url)
        urls == [image |-> COMFYUI_API_URL, video |-> COMFYUI_VIDEO_API_URL]
        after == IF response.status = 200
                 THEN AssignEndpoint(endpoint_type, new_url, urls)
                 ELSE urls
    IN  /\ update_response' = response
        /\ completed_update' =
              IF response.status = 200
              THEN [completed_update EXCEPT ![response.type] = response.new_url]
              ELSE completed_update
        /\ COMFYUI_API_URL' = after.image
        /\ COMFYUI_VIDEO_API_URL' = after.video
        /\ UNCHANGED <<job_url, sent>>

(* The request a submission sends: who sent it and the URL it was sent to. *)
Send(service, url) ==
    /\ sent' = [service |-> service, url |-> url]
    /\ UNCHANGED <<COMFYUI_API_URL, COMFYUI_VIDEO_API_URL, update_response, completed_update>>

(* Line 464: url = f"{COMFYUI_API_URL}/prompt" *)
SendImagePrompt ==
    /\ Send("image", COMFYUI_API_URL \o <<"/prompt">>)
    /\ UNCHANGED job_url

(* Line 558: url = f"{COMFYUI_VIDEO_API_URL}/prompt", for t2v and i2v; the
   job now exists at the engine of that URL. *)
SendVideoPrompt(service) ==
    /\ Send(service, COMFYUI_VIDEO_API_URL \o <<"/prompt">>)
    /\ job_url' = COMFYUI_VIDEO_API_URL

(* Line 530: url = f"{COMFYUI_VIDEO_API_URL}/upload/image", i2v only. *)
upload_image_to_comfyui ==
    /\ Send("i2v_upload", COMFYUI_VIDEO_API_URL \o <<"/upload/image">>)
    /\ UNCHANGED job_url

(* Line 599: url = f"{COMFYUI_VIDEO_API_URL}/history/{prompt_id}", a poll of
   the job in flight. *)
PollJob ==
    /\ job_url # <<>>
    /\ Send("poll", COMFYUI_VIDEO_API_URL \o <<"/history">>)
    /\ UNCHANGED job_url

(* Line 741: url = f"{COMFYUI_VIDEO_API_URL}/view?{query_string}", the
   download of the video of the job in flight. *)
get_comfyui_video ==
    /\ job_url # <<>>
    /\ Send("view", COMFYUI_VIDEO_API_URL \o <<"/view">>)
    /\ UNCHANGED job_url

(***************************************************************************)
(* The workflow a video handler builds from its template.  A template is   *)
(* the set of its nodes that are insertion points; a workflow records the  *)
(* insertion points into which a value was written.                        *)
(***************************************************************************)
(* Lines 1311-1332: the nodes handle_video_t2v writes to (prompt, negative
   prompt, dimensions, the two seeds). *)
T2VInsertionPoints == {"89", "72", "74", "81", "78"}

(* Lines 1524-1554: the nodes handle_video_i2v writes to (dimensions, the
   two seeds, the image reference). *)
I2VInsertionPoints == {"98", "86", "85", "97"}

InsertionPoints(class) ==
    IF class = "t2v" THEN T2VInsertionPoints ELSE I2VInsertionPoints

(* Every `if "<node>" in workflow:` writes when the node is there and is
   skipped otherwise; no branch raises or returns. *)
BuildWorkflow(class, template) ==
    [raised |-> FALSE, substituted |-> InsertionPoints(class) \cap template]

NoWorkflow == [raised |-> FALSE, substituted |-> {}]

(* No workflow is followed. *)
InitWorkflowIdle ==
    /\ w_pc = "idle"
    /\ w_class = "none"
    /\ w_template = {}
    /\ workflow = NoWorkflow

(* Lines 1305-1332 and 1512-1554: copy the template and write the values. *)
PrepareWorkflow ==
    /\ w_pc = "template"
    /\ workflow' = BuildWorkflow(w_class, w_template)
    /\ w_pc' = "built"
    /\ UNCHANGED <<w_class, w_template>>

(* Lines 1338 and 1558: submit_video_to_comfyui(workflow), reached unless
   the preparation raised. *)
SubmitWorkflow ==
    /\ w_pc = "built"
    /\ w_pc' = IF workflow.raised THEN "failed" ELSE "submitted"
    /\ UNCHANGED <<w_class, w_template, workflow>>

(***************************************************************************)
(* count_lock and stats_lock: the `with` blocks of the request threads and *)
(* of the cleanup thread.                                                  *)
(***************************************************************************)
LockNames == {"count_lock", "stats_lock"}

(* Who is inside a lock: nobody, the cleanup thread, or the thread of a
   request. *)
Nobody == [thread |-> "none", request |-> 0]

CleanupThread == [thread |-> "cleanup", request |-> 0]

RequestThread(r) == [thread |-> "request", request |-> r]

(* Lines 1291, 1301, 368 (log_request), 1489: the locks an admitted video
   request takes, in order. *)
AdmittedLocks == <<"count_lock", "count_lock", "stats_lock", "count_lock">>

(* Lines 1291, 368 (log_request of the 429): those of a rejected one. *)
RejectedLocks == <<"count_lock", "stats_lock">>

RequestLocks(path) == IF path = "admitted" THEN AdmittedLocks ELSE RejectedLocks

(* Mutant: the pass logs through log_request and so takes stats_lock. *)
CleanupLocks_Logging == {"stats_lock"}

(* Lines 226-348: the locks get_directory_size, cleanup_old_files,
   should_run_cleanup and auto_cleanup_loop take: none. *)
CleanupLocks == {}

(* No thread is followed. *)
InitLocksIdle ==
    /\ lock_holder = [l \in LockNames |-> Nobody]
    /\ l_path = [r \in Requests |-> "none"]
    /\ l_pos = [r \in Requests |-> 1]
    /\ c_pc = "sleep"

(* chat_completions dispatches the request; it will be admitted or not. *)
RequestArrives(r, path) ==
    /\ l_path[r] = "none"
    /\ l_path' = [l_path EXCEPT ![r] = path]
    /\ UNCHANGED <<lock_holder, l_pos, c_pc>>

(* `with lock:` entered: the thread waits while the lock is held. *)
RequestEnters(r) ==
    /\ l_path[r] # "none"
    /\ l_pos[r] <= Len(RequestLocks(l_path[r]))
    /\ \A l \in LockNames : lock_holder[l] # RequestThread(r)
    /\ LET lock == RequestLocks(l_path[r])[l_pos[r]]
       IN  /\ lock_holder[lock] = Nobody
           /\ lock_holder' = [lock_holder EXCEPT ![lock] = RequestThread(r)]
    /\ UNCHANGED <<l_path, l_pos, c_pc>>

(* The `with` block is left. *)
RequestLeaves(r) ==
    /\ \E l \in LockNames : lock_holder[l] = RequestThread(r)
    /\ lock_holder' = [l \in LockNames |->
                          IF lock_holder[l] = RequestThread(r) THEN Nobody ELSE lock_holder[l]]
    /\ l_pos' = [l_pos EXCEPT ![r] = @ + 1]
    /\ UNCHANGED <<l_path, c_pc>>

(* Lines 335-340: a pass begins, taking what it takes. *)
CleanupBegins ==
    /\ c_pc = "sleep"
    /\ \A l \in CleanupLocks : lock_holder[l] = Nobody
    /\ lock_holder' = [l \in LockNames |->
                          IF l \in CleanupLocks THEN CleanupThread ELSE lock_holder[l]]
    /\ c_pc' = "pass"
    /\ UNCHANGED <<l_path, l_pos>>

(* Lines 292-298: the pass ends, however long it took. *)
CleanupEnds ==
    /\ c_pc = "pass"
    /\ lock_holder' = [l \in LockNames |->
                          IF lock_holder[l] = CleanupThread THEN Nobody ELSE lock_holder[l]]
    /\ c_pc' = "sleep"
    /\ UNCHANGED <<l_path, l_pos>>

(***************************************************************************)
(* Plisio payments: the pending record the bot writes for an invoice, and  *)
(* webhook_plisio deliveries for it, each in its own thread.  A row of     *)
(* transactions is known by its external_ref (UNIQUE, database.py line 64).*)
(***************************************************************************)
MaxDeliveries == 2

Deliveries == 1..MaxDeliveries

(* server.py line 968: the credits of the package of the invoice. *)
PACKAGE_CREDITS == 10

(* What a row can be stored under: the invoice's txn_id or order number. *)
Refs == {"txn_id", "order_number"}

NoRows == [ref \in Refs |-> "none"]

(* bot.py lines 1186-1198: external_ref = txn_id or order_id, then
   create_pending_payment inserts a row with status 'pending'
   (database.py lines 240-256). *)
create_pending_payment(has_txn_id) ==
    [NoRows EXCEPT ![IF has_txn_id THEN "txn_id" ELSE "order_number"] = "pending"]

(* database.py lines 303-308: SELECT id FROM transactions WHERE
   external_ref = ?, whatever the status of the row. *)
check_payment_exists(rows, ref) == rows[ref] # "none"

(* server.py lines 987-988: the test of the webhook; a delivery that gets
   here carries the order number, and may carry the txn_id. *)
AlreadyProcessed(rows, has_txn_id) ==
    \/ has_txn_id /\ check_payment_exists(rows, "txn_id")
    \/ check_payment_exists(rows, "order_number")

(* No payment is followed. *)
InitPaymentIdle ==
    /\ transactions = NoRows
    /\ user_credits = 0
    /\ invoice_has_txn_id = FALSE
    /\ d_pc = [d \in Deliveries |-> "idle"]
    /\ d_status = [d \in Deliveries |-> "none"]
    /\ d_txn_id = [d \in Deliveries |-> FALSE]

(* server.py lines 905-982: a delivery arrives, with the txn_id of the
   invoice (payload 'txn_id' or 'id') or without; status 'pending' is
   answered right away. *)
webhook_plisio_receive(d, status, txn_id) ==
    /\ d_pc[d] = "idle"
    /\ txn_id => invoice_has_txn_id
    /\ d_status' = [d_status EXCEPT ![d] = status]
    /\ d_txn_id' = [d_txn_id EXCEPT ![d] = txn_id]
    /\ d_pc' = [d_pc EXCEPT ![d] = IF status = "completed" THEN "check" ELSE "done"]
    /\ UNCHANGED <<transactions, user_credits, invoice_has_txn_id>>

(* server.py lines 987-989: the two SELECTs; an existing row ends the
   delivery with "already_processed". *)
webhook_plisio_check(d) ==
    /\ d_pc[d] = "check"
    /\ d_pc' = [d_pc EXCEPT ![d] =
                  IF AlreadyProcessed(transactions, d_txn_id[d])
                  THEN "done" ELSE "add"]
    /\ UNCHANGED <<transactions, user_credits, invoice_has_txn_id, d_status,
                   d_txn_id>>

(* server.py lines 995-1003 and database.py lines 166-189: add_credits is one
   transaction: the UPDATE of the credits and the INSERT of the completed
   row under external_ref = txn_id or order_number; an INSERT that meets the
   UNIQUE constraint raises and the UPDATE is rolled back. *)
webhook_plisio_add(d) ==
    LET external_ref == IF d_txn_id[d] THEN "txn_id" ELSE "order_number" IN
    /\ d_pc[d] = "add"
    /\ IF transactions[external_ref] = "none"
       THEN /\ user_credits' = user_credits + PACKAGE_CREDITS
            /\ transactions' = [transactions EXCEPT ![external_ref] = "completed"]
       ELSE UNCHANGED <<user_credits, transactions>>
    /\ d_pc' = [d_pc EXCEPT ![d] = "done"]
    /\ UNCHANGED <<invoice_has_txn_id, d_status, d_txn_id>>

Init == InitServer /\ InitIdle /\ InitEvictIdle /\ InitClockIdle /\ InitEndpointIdle /\ InitWorkflowIdle /\ InitLocksIdle /\ InitPaymentIdle

Handlers(r) ==
    \/ \E model \in Models, has_image \in BOOLEAN :
          \/ handle_video_t2v_admit(r, model, has_image) /\ UNCHANGED serverFrame
          \/ handle_video_i2v_admit(r, model, has_image) /\ UNCHANGED serverFrame
          \/ \E raises \in BOOLEAN, outcome \in EngineOutcomes :
                /\ handle_image_generation(r, model, has_image, raises, outcome)
                /\ UNCHANGED serverFrame
    \/ handle_video_t2v_count(r) /\ UNCHANGED serverFrame
    \/ \E raises \in BOOLEAN, outcome \in EngineOutcomes :
          handle_video_t2v_try(r, raises, outcome) /\ UNCHANGED serverFrame
    \/ handle_video_t2v_finally(r) /\ UNCHANGED serverFrame
    \/ handle_video_t2v_release(r) /\ UNCHANGED serverFrame
    \/ handle_video_i2v_count(r) /\ UNCHANGED serverFrame
    \/ \E raises \in BOOLEAN, upload_ok \in BOOLEAN :
          handle_video_i2v_upload(r, raises, upload_ok) /\ UNCHANGED serverFrame
    \/ \E raises \in BOOLEAN, outcome \in EngineOutcomes :
          handle_video_i2v_submit(r, raises, outcome) /\ UNCHANGED serverFrame
    \/ handle_video_i2v_finally(r) /\ UNCHANGED serverFrame
    \/ handle_video_i2v_release(r) /\ UNCHANGED serverFrame

Next ==
    \E r \in Requests :
        \/ Handlers(r)
        \/ Disconnect(r) /\ UNCHANGED serverFrame
        \/ StreamStart(r) /\ UNCHANGED serverFrame
        \/ \E how \in {"completed", "failed", "timed_out"} :
              StreamEnd(r, how) /\ UNCHANGED serverFrame
        \/ StreamAbort(r) /\ UNCHANGED serverFrame

Spec == Init /\ [][Next]_vars

(***************************************************************************)
(* SpecStream: one request, its stream followed poll by poll.              *)
(***************************************************************************)
(* The request SpecStream follows: the first one. *)
Observed == CHOOSE r \in Requests : \A q \in Requests : r <= q

Durations == 0..MaxQueryTime

StreamStep(r) ==
    \/ generate_stream_ack(r) /\ UNCHANGED serverFrame
    \/ \E h \in HistoryResponses, query_time \in Durations, video_ok \in BOOLEAN :
          /\ generate_video_stream_poll(r, h, query_time, video_ok)
          /\ UNCHANGED serverFrame
    \/ generate_video_stream_timeout(r) /\ UNCHANGED serverFrame
    \/ \E image_history \in ImageHistories, image_ok \in BOOLEAN,
          query_time \in Durations, fetch_time \in Durations :
          /\ generate_image_stream_poll(r, image_history, image_ok,
                                        query_time, fetch_time)
          /\ UNCHANGED serverFrame
    \/ generate_image_stream_timeout(r) /\ UNCHANGED serverFrame

NextStream ==
    \/ Handlers(Observed)
    \/ Disconnect(Observed) /\ UNCHANGED serverFrame
    \/ StreamStep(Observed)

SpecStream == Init /\ [][NextStream]_vars

(* A generator that can take a step takes it: its thread keeps running. *)
SpecStreamFair == SpecStream /\ WF_vars(StreamStep(Observed))

(***************************************************************************)
(* SpecFetch: one poll of one job, for every shape of the engine's answer  *)
(* and, for a completed job, every shape of its outputs.                   *)
(***************************************************************************)
InitFetch ==
    /\ InitServer
    /\ InitEvictIdle
    /\ InitClockIdle
    /\ InitEndpointIdle
    /\ InitWorkflowIdle
    /\ InitLocksIdle
    /\ InitPaymentIdle
    /\ f_pc = "poll"
    /\ poll_status = StatusData("NONE", FALSE)
    /\ failed_downloads = 0
    /\ video_data = NoData
    /\ final_chunk = NoChunk
    /\ artifact = "absent"
    /\ prompt_id \in JobIds
    /\ out_filename = NoFile
    /\ url_filename = NoFile
    /\ \/ /\ history \in HistoryResponses
          /\ task_outputs = IF history.outputs = "nonempty" THEN VideoOutputs
                            ELSE <<>>
       \/ /\ history = CompletedHistory
          /\ task_outputs \in Payloads \ {<<>>}

NextFetch ==
    \/ PollOnce /\ UNCHANGED fetchFrame
    \/ \E fails \in 0..(3 * MaxNodes) : CompleteJob(fails) /\ UNCHANGED fetchFrame
    \/ WriteArtifact /\ UNCHANGED fetchFrame

SpecFetch == InitFetch /\ [][NextFetch]_vars

(***************************************************************************)
(* SpecEvict: up to two eviction passes in succession over every directory *)
(* content and every capacity above the amount to free.                    *)
(***************************************************************************)
InitEvict ==
    /\ InitServer
    /\ InitIdle
    /\ InitClockIdle
    /\ InitEndpointIdle
    /\ InitWorkflowIdle
    /\ InitLocksIdle
    /\ InitPaymentIdle
    /\ directory \in Directories
    /\ dir_before = directory
    /\ capacity \in 2..MaxCapacity
    /\ cleanup_size \in 1..(capacity - 1)
    /\ removed_names = <<>>
    /\ passes = 0
    /\ vanished = NoVanishing

NextEvict ==
    \E vanish \in Vanishings : CleanupPass(vanish) /\ UNCHANGED evictFrame

SpecEvict == InitEvict /\ [][NextEvict]_vars

(***************************************************************************)
(* SpecClock: the cleanup thread over MaxDays days, for every start time   *)
(* and server timezone.                                                    *)
(***************************************************************************)
InitClock ==
    /\ InitServer
    /\ InitIdle
    /\ InitEvictIdle
    /\ InitEndpointIdle
    /\ InitWorkflowIdle
    /\ InitLocksIdle
    /\ InitPaymentIdle
    /\ started \in StartTimes
    /\ utc_now = started
    /\ server_tz \in ServerTimezones
    /\ last_cleanup_date = -1
    /\ trigger_times = <<>>

NextClock ==
    \E delay \in LoopDelays : auto_cleanup_loop(delay) /\ UNCHANGED clockFrame

SpecClock == InitClock /\ [][NextClock]_vars

(***************************************************************************)
(* SpecEndpoint: endpoint updates interleaved with submissions.            *)
(***************************************************************************)
NextEndpoint ==
    \/ \E auth_header \in AuthHeaders, json_ok \in BOOLEAN,
          endpoint_type \in EndpointTypes, new_url \in NewUrls :
          update_endpoint(auth_header, json_ok, endpoint_type, new_url)
            /\ UNCHANGED endpointFrame
    \/ SendImagePrompt /\ UNCHANGED endpointFrame
    \/ \E service \in {"t2v", "i2v"} : SendVideoPrompt(service) /\ UNCHANGED endpointFrame
    \/ upload_image_to_comfyui /\ UNCHANGED endpointFrame
    \/ PollJob /\ UNCHANGED endpointFrame
    \/ get_comfyui_video /\ UNCHANGED endpointFrame

SpecEndpoint == Init /\ [][NextEndpoint]_vars

(***************************************************************************)
(* SpecWorkflow: a video handler builds its workflow from a template that  *)
(* has any subset of the insertion points, and submits it.                 *)
(***************************************************************************)
InitWorkflow ==
    /\ InitServer
    /\ InitIdle
    /\ InitEvictIdle
    /\ InitClockIdle
    /\ InitEndpointIdle
    /\ InitLocksIdle
    /\ InitPaymentIdle
    /\ w_pc = "template"
    /\ w_class \in VideoClasses
    /\ w_template \in SUBSET InsertionPoints(w_class)
    /\ workflow = NoWorkflow

NextWorkflow ==
    \/ PrepareWorkflow /\ UNCHANGED workflowFrame
    \/ SubmitWorkflow /\ UNCHANGED workflowFrame

SpecWorkflow == InitWorkflow /\ [][NextWorkflow]_vars

(***************************************************************************)
(* SpecLocks: request threads and the cleanup thread around the locks.     *)
(***************************************************************************)
NextLocks ==
    \/ \E r \in Requests, path \in {"admitted", "rejected"} :
          RequestArrives(r, path) /\ UNCHANGED locksFrame
    \/ \E r \in Requests : RequestEnters(r) /\ UNCHANGED locksFrame
    \/ \E r \in Requests : RequestLeaves(r) /\ UNCHANGED locksFrame
    \/ CleanupBegins /\ UNCHANGED locksFrame
    \/ CleanupEnds /\ UNCHANGED locksFrame

SpecLocks == Init /\ [][NextLocks]_vars

(***************************************************************************)
(* SpecPayment: an invoice created through the bot, whose pending record   *)
(* was written or failed to be, and concurrent deliveries of its webhook.  *)
(***************************************************************************)
InitPayment ==
    /\ InitServer
    /\ InitIdle
    /\ InitEvictIdle
    /\ InitClockIdle
    /\ InitEndpointIdle
    /\ InitWorkflowIdle
    /\ InitLocksIdle
    /\ invoice_has_txn_id \in BOOLEAN
    /\ transactions \in {create_pending_payment(invoice_has_txn_id), NoRows}
    /\ user_credits = 0
    /\ d_pc = [d \in Deliveries |-> "idle"]
    /\ d_status = [d \in Deliveries |-> "none"]
    /\ d_txn_id = [d \in Deliveries |-> FALSE]

NextPayment ==
    \/ \E d \in Deliveries, status \in {"pending", "completed"}, txn_id \in BOOLEAN :
          webhook_plisio_receive(d, status, txn_id) /\ UNCHANGED paymentFrame
    \/ \E d \in Deliveries : webhook_plisio_check(d) /\ UNCHANGED paymentFrame
    \/ \E d \in Deliveries : webhook_plisio_add(d) /\ UNCHANGED paymentFrame

SpecPayment == InitPayment /\ [][NextPayment]_vars

(***************************************************************************)
(* Quantities the claims speak about.                                      *)
(***************************************************************************)
MaxConcurrent(c) == IF c = "t2v" THEN MAX_CONCURRENT_T2V ELSE MAX_CONCURRENT_I2V

SemaphoreValue(c) == IF c = "t2v" THEN t2v_semaphore ELSE i2v_semaphore

Counter(c) == IF c = "t2v" THEN t2v_count ELSE i2v_count

RECURSIVE SumOver(_, _)
SumOver(f, S) ==
    IF S = {} THEN 0
    ELSE LET x == CHOOSE y \in S : TRUE IN f[x] + SumOver(f, S \ {x})

(* Permits of class c acquired and not yet released. *)
Outstanding(c) ==
    SumOver([r \in Requests |-> acquired[r] - released[r]],
            {r \in Requests : cls[r] = c})

(* The handler of r has returned. *)
HandlerExited(r) == pc[r] \in {"returned", "ack", "loop", "done", "aborted"}

(* r's job was accepted by the engine and its poll loop has not ended. *)
JobInFlight(r) == job[r] /\ pc[r] \notin {"done", "aborted"}

InFlight(c) == Cardinality({r \in Requests : cls[r] = c /\ JobInFlight(r)})

Busy(r) == resp[r].kind = "busy"

(* C1: for each video class, in every reachable state, the number of permits
   acquired and not yet released lies between 0 and the class's maximum. *)
C1_PermitsWithinMaximum ==
    \A c \in VideoClasses :
        Outstanding(c) >= 0 /\ Outstanding(c) <= MaxConcurrent(c)

(* C1 witness: all permits of t2v are out while another t2v request has
   failed at submission (or raised) and given its permit back. *)
C1_Witness ==
    /\ Outstanding("t2v") = MAX_CONCURRENT_T2V
    /\ \E r \in Requests :
          /\ cls[r] = "t2v"
          /\ resp[r].kind \in {"submit_failed", "error"}
          /\ pc[r] = "returned"
          /\ released[r] = 1

(* C2 (as claimed): for each video class the number of jobs in flight
   (submitted, poll loop not ended) never exceeds the class's maximum. *)
C2_InFlightWithinMaximum ==
    \A c \in VideoClasses : InFlight(c) <= MaxConcurrent(c)

(* C3: an admitted request releases exactly once on every exit path of its
   handler, a request rejected as busy or for its missing image releases
   nothing; the semaphore value never exceeds the maximum and the counter
   never goes below 0. *)
C3_ReleasedExactlyOnce ==
    /\ \A r \in Requests :
          /\ released[r] <= acquired[r]
          /\ acquired[r] <= 1
          /\ HandlerExited(r) => released[r] = acquired[r]
          /\ resp[r].kind \in {"busy", "no_image"} =>
                acquired[r] = 0 /\ released[r] = 0
          /\ (HandlerExited(r) /\ cls[r] \in VideoClasses
                /\ resp[r].kind \notin {"busy", "no_image"}) =>
                acquired[r] = 1 /\ released[r] = 1
    /\ \A c \in VideoClasses :
          SemaphoreValue(c) <= MaxConcurrent(c) /\ Counter(c) >= 0

(* C3 witness: one request left its handler on the submission-failure path
   with its permit released once, another was rejected as busy. *)
C3_Witness ==
    \E r1, r2 \in Requests :
        /\ pc[r1] = "returned" /\ resp[r1].kind = "submit_failed"
        /\ acquired[r1] = 1 /\ released[r1] = 1
        /\ pc[r2] = "returned" /\ Busy(r2)
        /\ acquired[r2] = 0 /\ released[r2] = 0

(* C4 (as claimed): the permit is released only after the request's poll loop
   has ended: no request has released while its job is still in flight. *)
C4_ReleaseAfterPollLoop ==
    \A r \in Requests : released[r] > 0 => ~JobInFlight(r)

(* C5: a video request that reaches admission while its class's semaphore has
   no free slot gets, in that same step, the 429 naming its class and the
   class's maximum; nothing is submitted, semaphores and counters are left as
   they were, and the request never goes on. *)
C5_BusyStep(r) ==
    (/\ pc[r] = "new"
     /\ pc'[r] # "new"
     /\ cls'[r] \in VideoClasses
     /\ resp'[r] # NoImageResponse
     /\ SemaphoreValue(cls'[r]) = 0)
    => /\ resp'[r] = Response(429, "busy", cls'[r], MaxConcurrent(cls'[r]))
       /\ pc'[r] = "returned"
       /\ UNCHANGED semVars
       /\ acquired'[r] = 0 /\ released'[r] = 0 /\ ~job'[r]

C5_BusyIsFinal(r) ==
    Busy(r) => /\ pc[r] = "returned"
               /\ ~job[r]
               /\ acquired[r] = 0 /\ released[r] = 0
               /\ polled[r] = <<>> /\ events[r] = <<>>

C5_BusyRejection ==
    /\ [][\A r \in Requests : C5_BusyStep(r)]_vars
    /\ [](\A r \in Requests : C5_BusyIsFinal(r))

(* C5 witness: a request was rejected as busy while the only permit of its
   class is held by another request. *)
C5_Witness ==
    \E r1, r2 \in Requests :
        /\ resp[r1] = T2VBusyResponse
        /\ cls[r2] = "t2v" /\ acquired[r2] = 1 /\ released[r2] = 0
        /\ t2v_semaphore = 0

(* r was admitted and nothing of it has finished: it is still before the
   engine's answer, or its job is in flight. *)
Unfinished(r) ==
    \/ pc[r] \in {"count", "try", "submit"}
    \/ JobInFlight(r)

(* C6 (as claimed): when maximum + 1 requests of a class have arrived, each
   before any of the others' jobs has finished, exactly maximum of them were
   admitted and exactly one got the busy response. *)
C6_OneBusyOfNPlusOne ==
    \A c \in VideoClasses :
        LET arrived == {r \in Requests : cls[r] = c /\ pc[r] # "new"} IN
        (/\ Cardinality(arrived) = MaxConcurrent(c) + 1
         /\ \A r \in arrived : Unfinished(r) \/ Busy(r))
        => /\ Cardinality({r \in arrived : Busy(r)}) = 1
           /\ Cardinality({r \in arrived : acquired[r] = 1}) = MaxConcurrent(c)

(* The ceiling a class would be admitted under.  The code configures none
   for the image class: any ceiling the model can exceed serves. *)
Ceiling(c) == IF c = "image" THEN NumRequests - 1 ELSE MaxConcurrent(c)

(* C7 (as claimed): for each of the three classes, a request arriving while
   as many jobs of its class as the class's ceiling are in flight is rejected
   instead of being submitted. *)
C7_EveryClassHasCeiling ==
    [][\A r \in Requests :
          (/\ pc[r] = "new"
           /\ pc'[r] # "new"
           /\ InFlight(cls'[r]) >= Ceiling(cls'[r]))
          => resp'[r].kind \in {"busy", "no_image"}]_vars

(***************************************************************************)
(* The stream of one request (SpecStream).                                 *)
(***************************************************************************)
IsTerminalChunk(e) == e.finish_reason = "stop"

TerminalStatuses == {"COMPLETED", "FAILED"}

Timeout(c) == IF c = "image" THEN IMAGE_TIMEOUT ELSE VIDEO_TIMEOUT

Backoff(c) == IF c = "image" THEN IMAGE_POLL_SLEEP ELSE POLL_BACKOFF

(* C8: the chunks of a stream are the acknowledgment, then status and
   keep-alive chunks, then, when the stream ends without being abandoned,
   exactly one terminal chunk (finish_reason stop) followed by [DONE] alone;
   nothing but [DONE] follows a terminal chunk. *)
C8_EventOrder ==
    \A r \in Requests :
        LET ev == events[r]
            n == Len(ev)
        IN
        /\ pc[r] \in {"loop", "done"} => n >= 1
        /\ n >= 1 => ev[1] = AckChunk
        /\ \A i \in 2..n : ev[i].role = "none"
        /\ \A i \in 1..n :
              /\ ev[i].finish_reason = "none" =>
                    ev[i].content \in {"submitted", "", "IN_QUEUE", "IN_PROGRESS"}
              /\ IsTerminalChunk(ev[i]) =>
                    /\ ev[i].content \in {"url", "no_video", "failed", "timeout"}
                    /\ i = n - 1
                    /\ ev[n] = DoneMarker
              /\ ev[i] = DoneMarker => i = n /\ i >= 3 /\ IsTerminalChunk(ev[i - 1])
        /\ pc[r] = "loop" => \A i \in 1..n : ev[i].finish_reason = "none"
        /\ pc[r] = "done" =>
              /\ n >= 3
              /\ ev[n] = DoneMarker
              /\ IsTerminalChunk(ev[n - 1])
              /\ Cardinality({i \in 1..n : IsTerminalChunk(ev[i])}) = 1

(* C8 witness: a finished video stream that carried a status announcement and
   a keep-alive before its terminal chunk. *)
C8_Witness ==
    LET ev == events[Observed] IN
    /\ pc[Observed] = "done"
    /\ \E i, j \in 2..Len(ev) :
          ev[i] = StatusChunk("IN_PROGRESS") /\ ev[j] = KeepaliveChunk
    /\ ev[Len(ev) - 1] = FinalChunk(TRUE)

(* What the poll loop of a video stream has done so far. *)
C9_LoopExits(r) ==
    LET n == Len(polled[r]) IN
    cls[r] \in VideoClasses =>
        /\ pc[r] = "loop" => \A i \in 1..n : polled[r][i] \notin TerminalStatuses
        /\ pc[r] = "done" =>
              /\ \A i \in 1..(n - 1) : polled[r][i] \notin TerminalStatuses
              /\ ended[r] = "completed" <=> (n > 0 /\ polled[r][n] = "COMPLETED")
              /\ ended[r] = "failed" <=> (n > 0 /\ polled[r][n] = "FAILED")
              /\ ended[r] = "timed_out" <=>
                    (n = 0 \/ polled[r][n] \notin TerminalStatuses)
              /\ ended[r] = "timed_out" => elapsed[r] >= VIDEO_TIMEOUT

(* C9: while the caller stays connected every poll loop ends; a video loop
   ends at the first poll classified COMPLETED or FAILED, and otherwise with
   timed_out, only once the elapsed time has reached the timeout. *)
C9_PollLoopTerminates ==
    /\ [](\A r \in Requests : C9_LoopExits(r))
    /\ (pc[Observed] = "loop" /\ connected[Observed])
          ~> (pc[Observed] = "done" \/ ~connected[Observed])

(* C9 witness: a video stream whose polls all failed at transport level and
   which ended with timed_out after several of them. *)
C9_Witness ==
    /\ cls[Observed] \in VideoClasses
    /\ pc[Observed] = "done"
    /\ ended[Observed] = "timed_out"
    /\ Len(polled[Observed]) >= 3
    /\ \A i \in 1..Len(polled[Observed]) : polled[Observed][i] = "NONE"

(* No poll so far found a terminal state of the job. *)
NeverTerminal(r) ==
    \A i \in 1..Len(polled[r]) :
        polled[r][i] \in {"NONE", "IN_QUEUE", "IN_PROGRESS", "PENDING", "ERROR"}

(* C10: the timeout chunk is written only when the elapsed time has reached
   the timeout T, and, when no poll reached a terminal state, no later than
   one status query and one sleep after the last instant below T. *)
C10_TimeoutOnTime ==
    \A r \in Requests :
        (\E i \in 1..Len(events[r]) : events[r][i].content = "timeout") =>
            /\ elapsed[r] >= Timeout(cls[r])
            /\ NeverTerminal(r) =>
                  elapsed[r] <= (Timeout(cls[r]) - 1) + MaxQueryTime + Backoff(cls[r])

(* C10 witness: a video stream timed out after the deadline, its last
   iteration having started just before it. *)
C10_Witness ==
    /\ cls[Observed] \in VideoClasses
    /\ ended[Observed] = "timed_out"
    /\ Len(polled[Observed]) >= 2
    /\ elapsed[Observed] > VIDEO_TIMEOUT

(* The engine reported the job as failed at poll i of r's stream. *)
ReportedFailed(r, i) == polled[r][i] \in {"FAILED", "ERROR"}

(* C11 (as claimed): in every class, the poll at which the engine reports the
   job as failed is the last one and the stream ends with the failed chunk,
   whose text differs from the timeout text; no stream that saw a failure
   report ends with timed_out. *)
C11_FailedJobEndsFailed ==
    \A r \in Requests :
        LET n == Len(polled[r])
            ev == events[r]
        IN
        /\ FailChunk.content # TimeoutChunk.content
        /\ (n > 0 /\ ReportedFailed(r, n) /\ connected[r]) =>
              /\ pc[r] = "done"
              /\ ended[r] = "failed"
              /\ ev[Len(ev) - 1] = FailChunk
        /\ ended[r] = "timed_out" => \A i \in 1..n : ~ReportedFailed(r, i)

(* The step is a poll of r's video stream classified as status. *)
PolledNow(r, status) ==
    /\ cls[r] \in VideoClasses
    /\ polled'[r] = Append(polled[r], status)

(* What a poll with the unknown outcome does to r's stream. *)
C12_UnknownStep(r) ==
    PolledNow(r, "NONE") =>
        /\ pc'[r] # "done"
        /\ ended'[r] \in {"no", "aborted"}
        /\ last_status'[r] = last_status[r]
        /\ connected[r] =>
              /\ pc'[r] = "loop"
              /\ events'[r] = Append(events[r], KeepaliveChunk)
        /\ elapsed'[r] >= elapsed[r] + POLL_BACKOFF

(* C12: a status query of a video stream that fails at transport level (status
   other than 200, exception, malformed body) is classified as unknown; a poll
   with the unknown outcome never ends the stream with a terminal event,
   leaves last_status unchanged, writes exactly one keep-alive chunk, and the
   next poll starts at least the 3-second backoff later. *)
C12_TransportFailureIsUnknown ==
    /\ [](\A h \in HistoryResponses :
             h.http # "200" => check_comfyui_video_status(h).status = "NONE")
    /\ [][\A r \in Requests : C12_UnknownStep(r)]_vars

(* C12 witness: after the job was announced as running, a poll failed at
   transport level; the stream is still in its loop, still at IN_PROGRESS,
   and its last chunk is a keep-alive. *)
C12_Witness ==
    LET n == Len(polled[Observed]) IN
    /\ pc[Observed] = "loop"
    /\ connected[Observed]
    /\ n >= 2
    /\ polled[Observed][n - 1] = "IN_PROGRESS"
    /\ polled[Observed][n] = "NONE"
    /\ last_status[Observed] = "IN_PROGRESS"
    /\ events[Observed][Len(events[Observed])] = KeepaliveChunk
    /\ elapsed[Observed] >= 2 * POLL_BACKOFF

(***************************************************************************)
(* One poll of one job (SpecFetch).                                        *)
(***************************************************************************)
(* The engine's answer has been classified. *)
Classified == f_pc \in {"classified", "completed", "reported"}

(* The status the claimed precedence gives to a 200 answer h. *)
ClaimedStatus(h) ==
    IF h.has_key /\ h.outputs = "nonempty" THEN "COMPLETED"
    ELSE IF h.has_key /\ (h.status_str = "success" \/ h.completed)
    THEN "COMPLETED"
    ELSE IF h.has_key /\ (h.error \/ h.status_str = "error") THEN "FAILED"
    ELSE IF ~h.has_key THEN "IN_QUEUE"
    ELSE "IN_PROGRESS"

(* C13: the status of a poll is determined by the engine's answer alone, with
   the precedence non-empty outputs -> completed, success or completed mark ->
   completed, error -> failed, job id absent -> queued, otherwise running; in
   particular an entry with non-empty outputs and an error mark is completed,
   and an entry with status_str = "error" and no outputs is failed. *)
C13_Classification ==
    (Classified /\ history.http = "200") =>
        /\ poll_status.status = ClaimedStatus(history)
        /\ ~history.has_key => poll_status.status = "IN_QUEUE"
        /\ (history.has_key /\ history.outputs = "nonempty") =>
              poll_status = StatusData("COMPLETED", TRUE)
        /\ (history.has_key /\ history.outputs # "nonempty"
              /\ history.status_str = "success") =>
              poll_status.status = "COMPLETED"
        /\ (history.has_key /\ history.outputs # "nonempty"
              /\ history.status_str = "error" /\ ~history.completed) =>
              poll_status.status = "FAILED"
        /\ (history.has_key /\ history.outputs # "nonempty"
              /\ history.status_str \in {"absent", "running"}
              /\ ~history.completed /\ ~history.error) =>
              poll_status.status = "IN_PROGRESS"

(* C13 witness: an entry with non-empty outputs and an error mark was
   classified as completed. *)
C13_Witness ==
    /\ Classified
    /\ history.http = "200"
    /\ history.has_key
    /\ history.outputs = "nonempty"
    /\ history.error
    /\ history.status_str = "error"
    /\ poll_status.status = "COMPLETED"

(***************************************************************************)
(* Status announcements and keep-alives of a stream (SpecStream).          *)
(***************************************************************************)
IsStatusChunk(e) ==
    e.finish_reason = "none" /\ e.content \in {"IN_QUEUE", "IN_PROGRESS"}

(* The statuses announced to the caller of r so far, in order. *)
Announcements(r) == SelectSeq(events[r], IsStatusChunk)

(* The status announced last before chunk i of r, if any. *)
AnnouncedBefore(r, i) ==
    LET before == SelectSeq(SubSeq(events[r], 1, i - 1), IsStatusChunk) IN
    IF Len(before) = 0 THEN "none" ELSE before[Len(before)].content

(* The poll sequence of the example. *)
ExamplePolls ==
    <<"IN_QUEUE", "IN_QUEUE", "IN_PROGRESS", "IN_PROGRESS", "COMPLETED">>

(* C14: in a video stream the chunk written for poll k is a status
   announcement only if it announces the status classified by poll k and that
   status differs from the one announced last before; no two consecutive
   announcements carry the same status; for the polls queued, queued,
   running, running, completed exactly one announcement, of running, is
   written. *)
C14_StatusChangeOnly ==
    \A r \in Requests :
        cls[r] \in VideoClasses =>
            LET ann == Announcements(r) IN
            /\ \A i \in 1..(Len(ann) - 1) : ann[i].content # ann[i + 1].content
            /\ \A k \in 1..Len(polled[r]) :
                  (k + 1 <= Len(events[r]) /\ IsStatusChunk(events[r][k + 1])) =>
                      /\ events[r][k + 1].content = polled[r][k]
                      /\ AnnouncedBefore(r, k + 1) # polled[r][k]
            /\ (polled[r] = ExamplePolls /\ pc[r] = "done") =>
                  ann = <<StatusChunk("IN_PROGRESS")>>

(* C14 witness: the stream of the example has ended. *)
C14_Witness ==
    /\ cls[Observed] \in VideoClasses
    /\ pc[Observed] = "done"
    /\ polled[Observed] = ExamplePolls
    /\ Announcements(Observed) = <<StatusChunk("IN_PROGRESS")>>
    /\ Len(events[Observed]) = 8

(* The keep-alive chunks written to the caller of r so far. *)
Keepalives(r) == SelectSeq(events[r], LAMBDA e : e = KeepaliveChunk)

(* C15 (as claimed): in a stream of any class that is in its poll loop with
   the caller connected, every poll iteration so far has written one chunk:
   a status announcement or else exactly one keep-alive. *)
C15_KeepaliveEveryPoll ==
    \A r \in Requests :
        (pc[r] = "loop" /\ connected[r]) =>
            /\ Len(events[r]) = 1 + Len(polled[r])
            /\ Len(Keepalives(r)) = Len(polled[r]) - Len(Announcements(r))

(* The same for the two video classes only. *)
C15_VideoOnly ==
    \A r \in Requests :
        (pc[r] = "loop" /\ connected[r] /\ cls[r] \in VideoClasses) =>
            /\ Len(events[r]) = 1 + Len(polled[r])
            /\ Len(Keepalives(r)) = Len(polled[r]) - Len(Announcements(r))

(* A step of r's video stream taken after the caller has disconnected. *)
C16_AbortStep(r) ==
    (cls[r] \in VideoClasses /\ ~connected[r] /\ pc[r] \in {"ack", "loop"}
        /\ <<pc[r], polled[r], events[r], elapsed[r]>>'
             # <<pc[r], polled[r], events[r], elapsed[r]>>) =>
        /\ pc'[r] = "aborted"
        /\ Len(polled'[r]) <= Len(polled[r]) + 1
        /\ events'[r] = events[r]

(* C16: once the caller of a video stream has disconnected, the next step of
   the generator, at most one status query later, closes it at the write
   that fails; no chunk is written and no further query is sent; the permit
   of a request whose stream was aborted has been released. *)
C16_DisconnectAborts ==
    /\ [][\A r \in Requests : C16_AbortStep(r)]_vars
    /\ [](\A r \in Requests :
             (cls[r] \in VideoClasses /\ pc[r] = "aborted") =>
                 acquired[r] = 1 /\ released[r] = 1)

(* C16 witness: a video stream was polled, the caller went away, one more
   status query was sent and the generator was closed at the chunk that
   followed it. *)
C16_Witness ==
    /\ cls[Observed] \in VideoClasses
    /\ pc[Observed] = "aborted"
    /\ ~connected[Observed]
    /\ Len(polled[Observed]) >= 2
    /\ Len(events[Observed]) = Len(polled[Observed])
    /\ released[Observed] = 1
    /\ SemaphoreValue(cls[Observed]) = MaxConcurrent(cls[Observed])

(* Some node of the outputs carries a file in the given field. *)
SomeNodeHas(field) ==
    \E i \in 1..Len(task_outputs) :
        \E k \in 1..Len(NodeFiles(task_outputs[i], i)) :
            NodeFiles(task_outputs[i], i)[k].field = field

(* The download of a completed job is over and no retrieval call failed. *)
FetchedFirstTry ==
    f_pc = "reported" /\ poll_status.outputs /\ failed_downloads = 0

(* C17 (as claimed): the file retrieved is chosen by field priority over all
   nodes: a videos file if any node has one, whatever the order of the nodes;
   an images file only if no node has a videos file; a gifs file only if no
   node has either. *)
C17_FieldPriority ==
    FetchedFirstTry =>
        /\ SomeNodeHas("videos") => video_data.field = "videos"
        /\ video_data.field = "images" => ~SomeNodeHas("videos")
        /\ video_data.field = "gifs" =>
              ~SomeNodeHas("videos") /\ ~SomeNodeHas("images")

(* The sniff as the claim states it: a non-empty filename that ends in a
   media extension or comes with animated = true. *)
ClaimedSniff(node) ==
    /\ node.images \notin {"absent", "nofile"}
    /\ (node.images = "media" \/ node.animated = TRUE)

(* C18: the file returned for a completed job is an images entry only if that
   entry passes the sniff; when the first node has no videos entry and every
   download succeeds, its images entry is the file returned, and reported
   with a URL, exactly if it passes the sniff; outputs that consist of one
   images entry failing the sniff give no file and no URL. *)
C18_ImagesSniff ==
    (f_pc = "reported" /\ poll_status.outputs) =>
        /\ video_data.field = "images" =>
              ClaimedSniff(task_outputs[video_data.node])
        /\ (failed_downloads = 0 /\ task_outputs[1].videos = "absent") =>
              /\ ClaimedSniff(task_outputs[1]) <=> video_data = File(1, "images")
              /\ ClaimedSniff(task_outputs[1]) => final_chunk = FinalChunk(TRUE)
        /\ (Len(task_outputs) = 1 /\ task_outputs[1].videos = "absent"
              /\ task_outputs[1].gifs = "absent"
              /\ ~ClaimedSniff(task_outputs[1])) =>
              video_data = NoData /\ final_chunk = FinalChunk(FALSE)

(* C18 witness: the only output is an images entry with a media filename and
   animated = true ("job123.mp4"); it was downloaded and reported with a
   URL. *)
C18_Witness ==
    /\ f_pc = "reported"
    /\ task_outputs = <<[videos |-> "absent", images |-> "media",
                         animated |-> TRUE, gifs |-> "absent"]>>
    /\ video_data = File(1, "images")
    /\ final_chunk = FinalChunk(TRUE)

(* What the fetcher returns when no node carries a matching field. *)
NoArtifactFound == download_comfyui_video(<<>>, 0)

(* Files were located in the outputs and every retrieval call failed. *)
LocatedButFailed ==
    /\ Len(ScanOrder(task_outputs, 1)) > 0
    /\ failed_downloads = Len(ScanOrder(task_outputs, 1))

(* C19 (as claimed): the result of the fetcher for outputs in which a file
   was located but could not be downloaded differs from its result for
   outputs without any matching field. *)
C19_DistinctFailures ==
    (f_pc = "reported" /\ poll_status.outputs /\ LocatedButFailed) =>
        video_data # NoArtifactFound

(* The fields of a chunk other than the text of its delta.  The remaining
   fields of the JSON (id, object, created, model, index) are the same in
   every chunk of a stream. *)
Shape(e) == [role |-> e.role, finish_reason |-> e.finish_reason]

(* The terminal chunk of r's finished stream. *)
TerminalChunk(r) == events[r][Len(events[r]) - 1]

(* C20 (as claimed): the terminal chunk of a stream that ended as failed,
   timed out or completed without a video differs from the terminal chunk of
   a stream completed with a URL in a field other than the text. *)
C20_TerminalShape ==
    \A r \in Requests :
        (pc[r] = "done" /\ TerminalChunk(r) # FinalChunk(TRUE)) =>
            Shape(TerminalChunk(r)) # Shape(FinalChunk(TRUE))

(* C21: when a job classified as completed yields no video data (empty
   outputs, no matching field, or every download failed), its one terminal
   chunk carries the degraded-success text without a URL and closes the
   choice, and no file named after the job exists in the artifact
   directory. *)
C21_DegradedSuccess ==
    (f_pc = "reported" /\ video_data = NoData) =>
        /\ final_chunk.content = "no_video"
        /\ final_chunk.finish_reason = "stop"
        /\ artifact = "absent"

(* C21 witness: a file was located in the outputs of a completed job, its
   download failed, and the job was reported without a URL and without a
   file. *)
C21_Witness ==
    /\ f_pc = "reported"
    /\ poll_status = StatusData("COMPLETED", TRUE)
    /\ LocatedButFailed
    /\ video_data = NoData
    /\ final_chunk.content = "no_video"
    /\ artifact = "absent"

(* C28 (as claimed): no reader of the artifact directory can find the file
   of a job under its final name before its content is completely
   written. *)
C28_NoPartialArtifact == artifact # "partial"

(***************************************************************************)
(* Eviction (SpecEvict).                                                   *)
(***************************************************************************)
(* The file of the given name in the directory the last pass started on. *)
FileBefore(name) ==
    dir_before[CHOOSE i \in 1..Len(dir_before) : dir_before[i].name = name]

RemovedSet == {removed_names[k] : k \in 1..Len(removed_names)}

KeptBefore == {i \in 1..Len(dir_before) : dir_before[i].name \notin RemovedSet}

RECURSIVE SizeOfNames(_)
SizeOfNames(names) ==
    IF names = <<>> THEN 0
    ELSE FileBefore(Head(names)).size + SizeOfNames(Tail(names))

(* Bytes the last pass freed. *)
Freed == SizeOfNames(removed_names)

Min(a, b) == IF a <= b THEN a ELSE b

(* A pass has run, undisturbed, over a directory above the capacity. *)
PassedOverCapacity ==
    /\ passes >= 1
    /\ vanished = NoVanishing
    /\ TotalSize(dir_before) > capacity

(* C22: an undisturbed pass over a directory above the capacity removes files
   in ascending order of modification time and stops as soon as the bytes
   removed reach the target: at least min(target, total) bytes are freed,
   the files removed are a prefix of the age-sorted listing, the pass stops
   at the first prefix that reaches the target, and no file removed is newer
   than a file left behind. *)
C22_OldestFirst ==
    PassedOverCapacity =>
        LET sorted == SortByMtime(dir_before)
            n == Len(removed_names)
        IN
        /\ Freed >= Min(cleanup_size, TotalSize(dir_before))
        /\ n >= 1
        /\ \A k \in 1..n : removed_names[k] = sorted[k].name
        /\ \A k \in 1..(n - 1) :
              FileBefore(removed_names[k]).mtime
                 <= FileBefore(removed_names[k + 1]).mtime
        /\ Freed - FileBefore(removed_names[n]).size < cleanup_size
        /\ \A k \in 1..n : \A i \in KeptBefore :
              FileBefore(removed_names[k]).mtime <= dir_before[i].mtime
        /\ directory = SelectSeq(dir_before, LAMBDA f : f.name \notin RemovedSet)

(* C22 witness: the pass removed two files, which were not the first two of
   the listing, and left a newer one. *)
C22_Witness ==
    /\ PassedOverCapacity
    /\ passes = 1
    /\ Len(removed_names) = 2
    /\ removed_names[1] > removed_names[2]
    /\ Len(directory) = 1
    /\ directory[1].mtime > FileBefore(removed_names[2]).mtime

(* C23: a pass that starts on a directory whose total size does not exceed
   the capacity removes no file, whatever the ages; undisturbed, it leaves
   the directory as it was. *)
C23_UnderCapacityNoop ==
    (passes >= 1 /\ TotalSize(dir_before) <= capacity) =>
        /\ removed_names = <<>>
        /\ vanished = NoVanishing => directory = dir_before

(* C23 witness: a pass has run on a directory exactly at the capacity, whose
   files differ in age, and left all of them. *)
C23_Witness ==
    /\ passes = 1
    /\ vanished = NoVanishing
    /\ TotalSize(dir_before) = capacity
    /\ Len(dir_before) >= 2
    /\ dir_before[1].mtime # dir_before[2].mtime
    /\ directory = dir_before

(* C24 (as claimed): after an undisturbed pass the total size of the
   directory is at most the capacity. *)
C24_UnderCapacityAfterPass ==
    (passes >= 1 /\ vanished = NoVanishing) => TotalSize(directory) <= capacity

(* C25 (as claimed): the second of two passes in succession removes no
   file. *)
C25_Idempotent ==
    (passes = 2 /\ vanished = NoVanishing) => removed_names = <<>>

(* C26 (as claimed): when another thread deletes a listed file during a pass
   over a directory that is above the capacity without that file, the pass
   does not count the file as freed and still frees at least
   min(target, total) bytes of the other files. *)
C26_ToleratesVanishing ==
    (passes >= 1 /\ vanished.file # 0
        /\ TotalSize(Without(dir_before, vanished.file)) > capacity) =>
        /\ vanished.file \notin RemovedSet
        /\ Freed >= Min(cleanup_size,
                        TotalSize(Without(dir_before, vanished.file)))

(***************************************************************************)
(* The schedule of the eviction pass (SpecClock).                          *)
(***************************************************************************)
(* The passes triggered on day d of the reference timezone. *)
TriggersOn(d) ==
    {k \in 1..Len(trigger_times) :
        DateAt(trigger_times[k], SHANGHAI_UTC_OFFSET) = d}

(* The UTC second at which hour h of day d of the reference timezone begins. *)
ReferenceHourStart(d, h) ==
    d * SecondsPerDay + (h - SHANGHAI_UTC_OFFSET) * SecondsPerHour

(* The process was running when the configured hour of day d began and a
   test of the loop was made at or after its end. *)
RanThroughHour(d) ==
    /\ started <= ReferenceHourStart(d, CLEANUP_HOUR)
    /\ utc_now >= ReferenceHourStart(d, CLEANUP_HOUR + 1)

(* C27: every pass is triggered while the hour in UTC+8 equals the configured
   hour, at most one pass is triggered per calendar day of UTC+8, and
   exactly one on a day through whose configured hour the process ran,
   whatever the server's own timezone. *)
C27_OncePerDay ==
    /\ \A k \in 1..Len(trigger_times) :
          HourAt(trigger_times[k], SHANGHAI_UTC_OFFSET) = CLEANUP_HOUR
    /\ \A d \in 0..(MaxDays + 1) :
          /\ Cardinality(TriggersOn(d)) <= 1
          /\ RanThroughHour(d) => Cardinality(TriggersOn(d)) = 1

(* C27 witness: a server in another timezone ran through the configured hour
   of two days and triggered one pass on each. *)
C27_Witness ==
    /\ server_tz # SHANGHAI_UTC_OFFSET
    /\ RanThroughHour(1)
    /\ RanThroughHour(2)
    /\ Len(trigger_times) = 2

(***************************************************************************)
(* Endpoint updates (SpecEndpoint).                                        *)
(***************************************************************************)
(* The endpoint type a submission belongs to. *)
EndpointOf(service) == IF service = "image" THEN "image" ELSE "video"

(* The base URL a request was sent to: its URL without the path. *)
BaseUrl(url) == SubSeq(url, 1, Len(url) - 1)

(* The value of the global of an endpoint type. *)
EndpointGlobal(type) ==
    IF type = "image" THEN COMFYUI_API_URL ELSE COMFYUI_VIDEO_API_URL

EndpointGlobalNext(type) ==
    IF type = "image" THEN COMFYUI_API_URL' ELSE COMFYUI_VIDEO_API_URL'

C29_SendOrUpdateStep ==
    /\ sent' # sent =>
          BaseUrl(sent'.url) = completed_update[EndpointOf(sent'.service)]
    /\ \A type \in {"image", "video"} :
          completed_update'[type] = completed_update[type]
              => EndpointGlobalNext(type) = EndpointGlobal(type)

(* C29: a submission is sent to the base URL of the last update of its type
   that was answered 200 (the configured URL before any), whole and without
   the trailing slashes, and the URL of a type changes only by a completed
   update of that type. *)
C29_UpdateEffective == [][C29_SendOrUpdateStep]_vars

(* C29 witness: after a completed update of the video endpoint, and a refused
   one after it, a video prompt went to the new URL while the image endpoint
   is the configured one. *)
C29_Witness ==
    /\ update_response.status = 401
    /\ completed_update.video = <<"http://a">>
    /\ COMFYUI_API_URL = InitialImageUrl
    /\ sent = [service |-> "i2v", url |-> <<"http://a", "/prompt">>]

(***************************************************************************)
(* The operational metrics (Spec).                                         *)
(***************************************************************************)
(* What the stats report for class c. *)
StatsCurrent(c) ==
    IF c = "t2v" THEN get_stats.current_video_t2v ELSE get_stats.current_video_i2v

StatsMaximum(c) ==
    IF c = "t2v" THEN get_stats.max_concurrent_t2v ELSE get_stats.max_concurrent_i2v

(* r is inside the handler of its class: admitted and not yet returned. *)
InsideHandler(r) == pc[r] # "new" /\ ~HandlerExited(r)

NoneInside(c) == \A r \in Requests : cls[r] = c => ~InsideHandler(r)

(* C30: for each video class, in every reachable state, the current usage
   the stats report is the maximum minus the free slots of the semaphore and
   lies in 0..maximum, the in-memory counter is at most the number of permits
   held, and both are 0 when no request of the class is inside its handler. *)
C30_MetricsConsistent ==
    \A c \in VideoClasses :
        /\ StatsMaximum(c) = MaxConcurrent(c)
        /\ StatsCurrent(c) = MaxConcurrent(c) - SemaphoreValue(c)
        /\ StatsCurrent(c) \in 0..MaxConcurrent(c)
        /\ Counter(c) <= Outstanding(c)
        /\ NoneInside(c) => StatsCurrent(c) = 0 /\ Counter(c) = 0

(* C30 witness: one t2v request holds its permit before the counter is
   incremented, another's job is in flight after its handler returned, and
   the stats report one t2v in use. *)
C30_Witness ==
    /\ StatsCurrent("t2v") = 1
    /\ Counter("t2v") = 0
    /\ \E r, q \in Requests :
          /\ cls[r] = "t2v" /\ pc[r] = "count"
          /\ cls[q] = "t2v" /\ JobInFlight(q) /\ HandlerExited(q)

(***************************************************************************)
(* Failures before a job exists (SpecStream).                              *)
(***************************************************************************)
(* r's handler made the call `call` to the engine with outcome in `outcomes`. *)
HasCalled(r, call, outcomes) ==
    \E k \in 1..Len(engine_calls[r]) :
        engine_calls[r][k].call = call /\ engine_calls[r][k].outcome \in outcomes

UploadFailed(r) == HasCalled(r, "upload", {"failed"})

(* The handler of r has answered with a failure that is not a stream. *)
FailureResponse(r) == resp[r].code = 500 /\ resp[r].kind # "stream"

(* Nothing of a stream exists for r: no poll made, no event written. *)
NoStream(r) ==
    /\ pc[r] \notin {"ack", "loop", "done", "aborted"}
    /\ polled[r] = <<>>
    /\ events[r] = <<>>

(* C31: an image-to-video handler uploads the image before it submits, and
   after a failed upload it never submits: it answers with a non-stream
   failure, has given its permit back when it returns, and no poll is made. *)
C31_UploadFailureAborts ==
    \A r \in Requests :
        /\ cls[r] = "i2v" /\ HasCalled(r, "submit", EngineOutcomes)
              => engine_calls[r][1] = [call |-> "upload", outcome |-> "ok"]
        /\ UploadFailed(r) =>
              /\ ~HasCalled(r, "submit", EngineOutcomes)
              /\ ~job[r]
              /\ FailureResponse(r)
              /\ NoStream(r)
              /\ pc[r] = "returned" => acquired[r] = 1 /\ released[r] = 1

(* C31 witness: an i2v request whose upload failed has returned. *)
C31_Witness ==
    /\ UploadFailed(Observed)
    /\ pc[Observed] = "returned"
    /\ i2v_semaphore = MAX_CONCURRENT_I2V

(* The submission phase of video request r failed: the engine was
   unreachable, timed out, answered with an error status or without a job id,
   or the handler raised. *)
SubmissionFailed(r) ==
    /\ cls[r] \in VideoClasses
    /\ \/ HasCalled(r, "submit", EngineOutcomes \ {"ok"})
       \/ resp[r].kind = "error"

(* C32: a video request whose submission phase failed is answered with a
   generation failure that is not a stream, has no job, has given its permit
   back when it returns, makes no poll and writes no stream event. *)
C32_SubmissionFailureSurfaced ==
    \A r \in Requests :
        SubmissionFailed(r) =>
            /\ ~job[r]
            /\ FailureResponse(r)
            /\ resp[r].kind \in {"submit_failed", "no_job_id", "error"}
            /\ NoStream(r)
            /\ pc[r] = "returned" => acquired[r] = 1 /\ released[r] = 1

(* C32 witness: a t2v request whose submission timed out has returned, and
   the permit is back. *)
C32_Witness ==
    /\ cls[Observed] = "t2v"
    /\ HasCalled(Observed, "submit", {"timeout"})
    /\ pc[Observed] = "returned"
    /\ t2v_semaphore = MAX_CONCURRENT_T2V

(***************************************************************************)
(* Building a workflow (SpecWorkflow).                                     *)
(***************************************************************************)
(* C33: a workflow is submitted only if every insertion point of its class
   was there to take its value; with one absent the building fails.
   Violated: an absent insertion point is skipped and the workflow is
   submitted without the value. *)
C33_MissingPointFails ==
    w_pc = "submitted" => InsertionPoints(w_class) \subseteq w_template

(***************************************************************************)
(* The cleanup thread and the locks (SpecLocks).                           *)
(***************************************************************************)
(* Request r is at a `with` block and not inside it. *)
WaitsFor(r, lock) ==
    /\ l_path[r] # "none"
    /\ l_pos[r] <= Len(RequestLocks(l_path[r]))
    /\ RequestLocks(l_path[r])[l_pos[r]] = lock
    /\ lock_holder[lock] # RequestThread(r)

(* C34: in every state the cleanup thread holds neither count_lock nor
   stats_lock, so a request that has to wait for one of them waits for
   another request and never for a pass, however long the pass lasts. *)
C34_CleanupHoldsNoLock ==
    \A lock \in LockNames :
        /\ lock_holder[lock] # CleanupThread
        /\ \A r \in Requests :
              WaitsFor(r, lock) /\ lock_holder[lock] # Nobody
                  => lock_holder[lock].thread = "request"

(* C34 witness: during a pass one request is inside count_lock and another
   one waits for it. *)
C34_Witness ==
    /\ c_pc = "pass"
    /\ \E r, q \in Requests :
          /\ lock_holder["count_lock"] = RequestThread(r)
          /\ WaitsFor(q, "count_lock")

(* C35: the statuses announced on a video stream follow queued -> running:
   after "running" was announced, "queued" is not announced again.
   Violated: the loop announces whatever status differs from the one
   announced last. *)
C35_NoQueuedAfterRunning ==
    \A r \in Requests :
        cls[r] \in VideoClasses =>
            LET ann == Announcements(r) IN
            \A i, j \in 1..Len(ann) :
                i < j => ~(ann[i].content = "IN_PROGRESS" /\ ann[j].content = "IN_QUEUE")

(* C36: a poll of the job in flight and the download of its video go to the
   base URL the job was submitted to.
   Violated: both read the global again, so after an update of the video
   endpoint they go to the new engine. *)
C36_PollsFollowSubmission ==
    sent.service \in {"poll", "view"} => BaseUrl(sent.url) = job_url

(***************************************************************************)
(* The URL of the final chunk (SpecFetch).                                 *)
(***************************************************************************)
(* C37: when the final chunk carries a URL, the file it names is the one
   named after the job this request submitted and is completely written. *)
C37_UrlAfterCompleteWrite ==
    final_chunk.content = "url" =>
        /\ artifact = "complete"
        /\ out_filename = OutFilename(prompt_id)
        /\ url_filename = out_filename

(* C37 witness: the final chunk of the second job id carries its URL, after
   one download attempt failed. *)
C37_Witness ==
    /\ final_chunk.content = "url"
    /\ prompt_id = "job-b"
    /\ url_filename = <<"job-b", ".mp4">>
    /\ failed_downloads = 1

(***************************************************************************)
(* Independence of the classes' budgets (Spec).                            *)
(***************************************************************************)
CounterNext(c) == IF c = "t2v" THEN t2v_count' ELSE i2v_count'

SemaphoreValueNext(c) == IF c = "t2v" THEN t2v_semaphore' ELSE i2v_semaphore'

(* The step changes the semaphore or the counter of class c. *)
BudgetChanges(c) ==
    SemaphoreValueNext(c) # SemaphoreValue(c) \/ CounterNext(c) # Counter(c)

(* The request that takes the step is of class c. *)
StepOfClass(c) == \E r \in Requests : pc'[r] # pc[r] /\ cls'[r] = c

C38_Step ==
    /\ \A c \in VideoClasses :
          BudgetChanges(c) =>
              /\ StepOfClass(c)
              /\ \A d \in VideoClasses \ {c} : ~BudgetChanges(d)
    /\ \A r \in Requests :
          (resp'[r] # resp[r] /\ resp'[r].kind = "busy") =>
              SemaphoreValue(cls'[r]) = 0

(* C38: a step changes the semaphore or the counter of a class only if it is
   a step of a request of that class, and then leaves the other class's
   alone; a request is rejected as busy only when the semaphore of its own
   class is exhausted. *)
C38_BudgetsIndependent == [][C38_Step]_vars

(* C38 witness: the budget of t2v is exhausted and an i2v request holds a
   permit of its class and got a stream response. *)
C38_Witness ==
    /\ t2v_semaphore = 0
    /\ \E r, q \in Requests :
          /\ cls[r] = "t2v" /\ pc[r] = "try"
          /\ cls[q] = "i2v" /\ pc[q] = "finally" /\ resp[q] = StreamResponse

(***************************************************************************)
(* Rejected endpoint updates (SpecEndpoint).                               *)
(***************************************************************************)
(* The headers that carry the server's key. *)
ValidHeaders == {<<"Bearer ", "key">>, <<"key">>}

(* What the claim says the response to an update request is, when it is a
   rejection. *)
ClaimedRejection(auth_header, endpoint_type, new_url) ==
    IF auth_header \notin ValidHeaders THEN 401
    ELSE IF endpoint_type = "" \/ new_url = <<>> THEN 400
    ELSE IF endpoint_type \notin {"image", "video"} THEN 400
    ELSE 200

C39_Responses ==
    \A auth_header \in AuthHeaders, endpoint_type \in EndpointTypes,
       new_url \in NewUrls :
       UpdateResponse(auth_header, TRUE, endpoint_type, new_url).status
           = ClaimedRejection(auth_header, endpoint_type, new_url)

C39_RejectedStep ==
    (sent' = sent /\ update_response'.status \in {400, 401}) =>
        UNCHANGED <<COMFYUI_API_URL, COMFYUI_VIDEO_API_URL>>

(* C39: an update request without the key or with a wrong one is answered
   401, one without type or url or with another type than 'image' and
   'video' is answered 400, and a step that answers 401 or 400 leaves both
   base URLs as they were. *)
C39_RejectedUpdateNoEffect == C39_Responses /\ [][C39_RejectedStep]_vars

(* C39 witness: after the image endpoint was updated, an update request was
   answered 400 and the image endpoint is still the updated one, the video
   endpoint the configured one. *)
C39_Witness ==
    /\ update_response.status = 400
    /\ COMFYUI_API_URL = <<"http://b">>
    /\ COMFYUI_VIDEO_API_URL = InitialVideoUrl

(***************************************************************************)
(* Crediting a payment (SpecPayment).                                      *)
(***************************************************************************)
(* The pending record the bot wrote for the invoice is there. *)
PendingRecorded == \E ref \in Refs : transactions[ref] = "pending"

(* A delivery with status 'completed' has been handled to its end. *)
CompletedDelivered ==
    \E d \in Deliveries : d_status[d] = "completed" /\ d_pc[d] = "done"

(* C40: for an invoice with its pending record, once a 'completed' delivery
   has been handled the user has the credits of the package, once.
   Violated: the pending record of the bot makes the first delivery end as
   "already_processed" and nothing is credited. *)
C40_CreditedExactlyOnce ==
    (PendingRecorded /\ CompletedDelivered) => user_credits = PACKAGE_CREDITS

====
